---- MODULE Spec2Model ----
(***************************************************************************)
(* A model of Insomniapp (src/insomniapp.py): the performance-band table,  *)
(* the adaptive y-axis range and the active-band clipper of the weekly     *)
(* graphs, the trend verdict of the results summary, the terminal-latency  *)
(* calibration store and the six interactive tests.                        *)
(*                                                                         *)
(* Numbers.  Scores, band boundaries and axis limits are decimal numbers   *)
(* in the source; the model writes them in THOUSANDTHS (0.2 is 200, 6.5 is *)
(* 6500, 100 percent is 100000), so every literal of the source is an      *)
(* integer here and the arithmetic on them is exact.                       *)
(***************************************************************************)
EXTENDS Integers, Sequences, FiniteSets, TLC

VARIABLES
    \* --- the weekly graph helpers
    g_req,              \* what the graph code was asked for: "range", "bands" or "week"
    g_op,               \* the graph code run last: "none", "adaptive_range",
                        \* "active_bands", "graphs", "text"
    test_name,          \* its test_name argument
    data_values,        \* data_values of _get_adaptive_y_range (plot_scores of the graph)
    performance_bands,  \* the table get_performance_bands(test_name) returned to it
    y_range,            \* <<y_min, y_max>>: the result of, or the argument after, the range call
    active_bands,       \* the result of _get_active_performance_bands
    daily_scores,       \* data['scores'] of a test: per weekday << >> (None) or <<score>>
    week_trend,         \* the weekly trend verdicts shown: [graph, text]
    \* --- the environment and the calibration store
    env,                \* what _terminal_signature() reads from platform and os.environ
    terminal_calibration, \* self.terminal_calibration: key -> entry
    calibration_file,   \* the file terminal_latency.json: [kind, data]
    \* --- a calibration run
    cal_pc,             \* "menu", "win_menu", "ready" (Press ENTER to begin), "loop"
    cal_method,         \* "none", "AppleScript", "SendKeys", "Manual"
    cal_i,              \* the loop variable i of the trial loop
    samples,            \* the list samples of the run, in microseconds
    errors,             \* the counter errors of the automated loops
    streak,             \* history: the trials that failed in a row up to now
    msg,                \* the last message the run printed
    \* --- history of the calibration runs, kept for the properties
    cal_runs,           \* calibration runs started so far; also the clock of timestamps
    restarts,           \* how often the program was started again
    cal_at_start,       \* terminal_calibration when the current run started
    file_at_start,      \* calibration_file when the current run started
    cal_end,            \* how the last run ended
    \* --- the results store
    results,            \* self.results: test name -> list of results
    results_file,       \* the file insomniapp_results.json: [kind, data]
    \* --- the sleep log and the start of the program
    sleep_log,          \* self.sleep_log: date -> sleep
    sleep_file,         \* the file sleep_log.json: [kind, data]
    boot,               \* "off" before __init__, "up" after it, "crashed" after an exception
    raised,             \* the exception that ended the program, or "none"
    \* --- the results summary
    sum_op,             \* "none", "shown" (display_all_results), "history" (display_results)
    summary,            \* test name -> the scores shown and the trend line
    \* --- a test run
    t_pc,               \* "menu", "ready", "running", "fallback", "cancelled", "shown"
    t_test,             \* the test that was chosen
    locals,             \* the local variables of the running test
    \* --- history of the test runs, kept for the properties
    t_runs,             \* test runs started so far; also the clock of timestamps
    t_interrupts,       \* Ctrl+C presses delivered to the current run
    t_end,              \* how the last run ended
    results_at_start,   \* results when the current run started
    resfile_at_start    \* results_file when the current run started

graphVars == <<g_req, g_op, test_name, data_values, performance_bands, y_range, active_bands,
               daily_scores, week_trend>>

storeVars == <<env, terminal_calibration, calibration_file>>

calVars == <<cal_pc, cal_method, cal_i, samples, errors, streak, msg,
             cal_runs, restarts, cal_at_start, file_at_start, cal_end>>

resultVars == <<results, results_file>>

sumVars == <<sum_op, summary>>

testVars == <<t_pc, t_test, locals, t_runs, t_interrupts, t_end,
              results_at_start, resfile_at_start>>

loadVars == <<sleep_log, sleep_file, boot, raised>>

vars == <<graphVars, storeVars, calVars, resultVars, sumVars, testVars, loadVars>>

-----------------------------------------------------------------------------
(* Bounds of the model *)

\* longest list of plotted values handed to _get_adaptive_y_range
MaxVals == 2
\* how many half-band steps the enumerated values reach below and above a domain
GridPad == 2
\* trial_count of a calibration run (50 in the program)
TrialCount == 4
\* calibration runs in one behaviour
MaxCalRuns == 2
\* program restarts in one behaviour
MaxRestarts == 1
\* longest history of one test in the results summary
MaxTrendLen == 6
\* test runs in one behaviour
MaxTestRuns == 1
\* words typed in a word recall
MaxRecalled == 2
\* how often one and the same word is typed in a word recall
MaxRepeated == 13
\* trials of a Stroop test (25 in the program)
StroopTrials == 3
\* lines that are no number in a sustained attention test
MaxInvalid == 1
\* longest list of samples whose statistics are computed
MaxSamples == 6

-----------------------------------------------------------------------------
(* Helpers on numbers and sequences *)

Range(s) == {s[i] : i \in DOMAIN s}

SetMin(S) == CHOOSE x \in S : \A y \in S : x <= y
SetMax(S) == CHOOSE x \in S : \A y \in S : x >= y

\* Python's min(...) / max(...) over a non-empty list, folded left to right
RECURSIVE ListMin(_)
ListMin(s) ==
    IF Len(s) = 1 THEN s[1]
    ELSE LET m == ListMin(Tail(s)) IN IF s[1] <= m THEN s[1] ELSE m

RECURSIVE ListMax(_)
ListMax(s) ==
    IF Len(s) = 1 THEN s[1]
    ELSE LET m == ListMax(Tail(s)) IN IF s[1] >= m THEN s[1] ELSE m

Min2(a, b) == IF a <= b THEN a ELSE b
\* a maximum that does not look at its second argument
Max2_First(a, b) == a

Max2(a, b) == IF a >= b THEN a ELSE b

SeqsUpTo(S, n) == UNION {[1..k -> S] : k \in 0..n}

-----------------------------------------------------------------------------
(* The six tests *)

TestNames == {"Reaction Time", "Digit Span", "Mental Math",
              "Word Recall", "Stroop Test", "Sustained Attention"}

\* get_test_info(test_name)['lower_better']: False in every entry and in the default
lower_better(name) ==
    CASE name = "Reaction Time"       -> FALSE
      [] name = "Digit Span"          -> FALSE
      [] name = "Mental Math"         -> FALSE
      [] name = "Word Recall"         -> FALSE
      [] name = "Stroop Test"         -> FALSE
      [] name = "Sustained Attention" -> FALSE
      [] OTHER                        -> FALSE

-----------------------------------------------------------------------------
(* Band table: get_performance_bands.  A dict in insertion order, modelled *)
(* as the sequence of its items <<band_name, band_min, band_max>>.         *)

get_performance_bands_shifted(name) ==
    CASE name = "Reaction Time" ->
            << <<"poor", 200, 400>>, <<"average", 400, 600>>,
               <<"good", 600, 800>>, <<"excellent", 800, 1000>> >>
      [] name = "Digit Span" ->
            << <<"poor", 0, 4000>>, <<"average", 4000, 8000>>,
               <<"good", 8000, 12000>>, <<"excellent", 12000, 16000>> >>
      [] name = "Mental Math" ->
            << <<"poor", 2000, 6500>>, <<"average", 6500, 11000>>,
               <<"good", 11000, 15500>>, <<"excellent", 15500, 20000>> >>
      [] name = "Stroop Test" ->
            << <<"poor", 1000, 2000>>, <<"average", 2000, 3000>>,
               <<"good", 3000, 4000>>, <<"excellent", 4000, 5000>> >>
      [] name = "Sustained Attention" ->
            << <<"poor", 1000, 4000>>, <<"average", 4000, 7000>>,
               <<"good", 7000, 10000>>, <<"excellent", 10000, 13000>> >>
      [] name = "Word Recall" ->
            << <<"poor", 0, 25000>>, <<"average", 25000, 50000>>,
               <<"good", 50000, 80000>>, <<"excellent", 75000, 100000>> >>
      [] OTHER -> << >>

get_performance_bands(name) ==
    CASE name = "Reaction Time" ->
            << <<"poor", 200, 400>>, <<"average", 400, 600>>,
               <<"good", 600, 800>>, <<"excellent", 800, 1000>> >>
      [] name = "Digit Span" ->
            << <<"poor", 0, 4000>>, <<"average", 4000, 8000>>,
               <<"good", 8000, 12000>>, <<"excellent", 12000, 16000>> >>
      [] name = "Mental Math" ->
            << <<"poor", 2000, 6500>>, <<"average", 6500, 11000>>,
               <<"good", 11000, 15500>>, <<"excellent", 15500, 20000>> >>
      [] name = "Stroop Test" ->
            << <<"poor", 1000, 2000>>, <<"average", 2000, 3000>>,
               <<"good", 3000, 4000>>, <<"excellent", 4000, 5000>> >>
      [] name = "Sustained Attention" ->
            << <<"poor", 1000, 4000>>, <<"average", 4000, 7000>>,
               <<"good", 7000, 10000>>, <<"excellent", 10000, 13000>> >>
      [] name = "Word Recall" ->
            << <<"poor", 0, 25000>>, <<"average", 25000, 50000>>,
               <<"good", 50000, 75000>>, <<"excellent", 75000, 100000>> >>
      [] OTHER -> << >>

-----------------------------------------------------------------------------
(* Adaptive range: _get_adaptive_y_range *)

\* the fixed ranges returned when there is no data (or no band table)
FixedRange_Swapped(name) ==
    CASE name = "Reaction Time"       -> <<200, 1000>>
      [] name = "Digit Span"          -> <<0, 16000>>
      [] name = "Mental Math"         -> <<2000, 20000>>
      [] name = "Stroop Test"         -> <<1000, 13000>>
      [] name = "Sustained Attention" -> <<1000, 5000>>
      [] OTHER                        -> <<0, 100000>>

FixedRange(name) ==
    CASE name = "Reaction Time"       -> <<200, 1000>>
      [] name = "Digit Span"          -> <<0, 16000>>
      [] name = "Mental Math"         -> <<2000, 20000>>
      [] name = "Stroop Test"         -> <<1000, 5000>>
      [] name = "Sustained Attention" -> <<1000, 13000>>
      [] OTHER                        -> <<0, 100000>>

\* a touch test that forgets the upper end of the band
BandInRange_LowerOnly(min_val, max_val, band_min, band_max) ==
    max_val >= band_min

\* the test of line 228: does the band (band_min, band_max) hold data
BandInRange_Closed(min_val, max_val, band_min, band_max) ==
    min_val <= band_max /\ max_val >= band_min

BandInRange(min_val, max_val, band_min, band_max) ==
    min_val < band_max /\ max_val >= band_min

\* a padding of 1 whatever the values are
Padding_One(min_val, max_val) == 1000

\* padding of the fallback: (max_val - min_val) * 0.1, or 1 when they are equal
Padding(min_val, max_val) ==
    IF max_val # min_val THEN (max_val - min_val) \div 10 ELSE 1000

_get_adaptive_y_range(name, values) ==
    LET bands == get_performance_bands(name) IN
    IF values = << >> \/ bands = << >> THEN FixedRange(name)
    ELSE
      LET min_val == ListMin(values)
          max_val == ListMax(values)
          InRange(b) == BandInRange(min_val, max_val, b[2], b[3])
          bands_in_range == SelectSeq(bands, InRange)
      IN  IF bands_in_range = << >>
          THEN LET padding == Padding(min_val, max_val)
               IN  <<min_val - padding, max_val + padding>>
          ELSE <<ListMin([i \in DOMAIN bands_in_range |-> bands_in_range[i][2]]),
                 ListMax([i \in DOMAIN bands_in_range |-> bands_in_range[i][3]])>>

-----------------------------------------------------------------------------
(* Active bands: _get_active_performance_bands.  The returned dict is the  *)
(* sequence of its items <<band_name, visible_min, visible_max>>.          *)

\* a clipper that forgets to clip the upper end
ClipBand_NoUpper(b, y_min, y_max) == <<b[1], Max2(b[2], y_min), b[3]>>

ClipBand(b, y_min, y_max) == <<b[1], Max2(b[2], y_min), Min2(b[3], y_max)>>

\* a selection that also keeps the bands that only meet an end of the window
_get_active_performance_bands_closed(name, y_min, y_max) ==
    LET all_bands == get_performance_bands(name)
        Meets(b) == b[2] <= y_max /\ b[3] >= y_min
        kept == SelectSeq(all_bands, Meets)
    IN  [i \in DOMAIN kept |-> ClipBand(kept[i], y_min, y_max)]

_get_active_performance_bands(name, y_min, y_max) ==
    LET all_bands == get_performance_bands(name)
        Overlaps(b) == b[2] < y_max /\ b[3] > y_min
        kept == SelectSeq(all_bands, Overlaps)
    IN  [i \in DOMAIN kept |-> ClipBand(kept[i], y_min, y_max)]

-----------------------------------------------------------------------------
(* Inputs of the graph helpers.  Values are enumerated per test on a grid  *)
(* of half band widths that starts GridPad steps below the domain and ends *)
(* GridPad steps above it: band boundaries, interior points and points     *)
(* outside the documented domain all occur.                                *)

HalfWidth(name) ==
    LET b == get_performance_bands(name) IN (b[1][3] - b[1][2]) \div 2

Grid(name) ==
    LET b == get_performance_bands(name)
    IN  {b[1][2] + i * HalfWidth(name) : i \in (0 - GridPad)..(8 + GridPad)}

-----------------------------------------------------------------------------
(* The graph helpers as operations.  A request is drawn in the initial    *)
(* state: a list of plotted values for the range resolver, or a window     *)
(* for the clipper; the graph code then calls the helpers on it.           *)

Windows(name) == {w \in Grid(name) \X Grid(name) : w[1] < w[2]}

\* no week of daily scores was handed to the graph code
NoWeek ==
    /\ daily_scores = << >>
    /\ week_trend = [graph |-> "unset", text |-> "unset"]

GraphInit ==
    /\ g_op = "none"
    /\ test_name \in TestNames
    /\ performance_bands = << >>
    /\ active_bands = << >>
    /\ NoWeek
    /\ \/ /\ g_req = "range"
          /\ data_values \in SeqsUpTo(Grid(test_name), MaxVals)
          /\ y_range = <<0, 0>>
       \/ /\ g_req = "bands"
          /\ data_values = << >>
          /\ y_range \in Windows(test_name)

\* y_min, y_max = self._get_adaptive_y_range(test_name, plot_scores)
GetAdaptiveYRange ==
    /\ g_req = "range"
    /\ g_op = "none"
    /\ g_op' = "adaptive_range"
    /\ performance_bands' = get_performance_bands(test_name)
    /\ y_range' = _get_adaptive_y_range(test_name, data_values)
    /\ UNCHANGED <<g_req, test_name, data_values, active_bands, daily_scores, week_trend>>
    /\ UNCHANGED <<storeVars, calVars, resultVars, sumVars, testVars, loadVars>>

\* active_bands = self._get_active_performance_bands(test_name, y_min, y_max),
\* on the range just resolved (line 1962) or on the requested window
GetActivePerformanceBands ==
    /\ \/ g_req = "bands" /\ g_op = "none"
       \/ g_op = "adaptive_range"
    /\ g_op' = "active_bands"
    /\ performance_bands' = get_performance_bands(test_name)
    /\ active_bands' = _get_active_performance_bands(test_name, y_range[1], y_range[2])
    /\ UNCHANGED <<g_req, test_name, data_values, y_range, daily_scores, week_trend>>
    /\ UNCHANGED <<storeVars, calVars, resultVars, sumVars, testVars, loadVars>>

GraphNext == GetAdaptiveYRange \/ GetActivePerformanceBands

\* no graph was requested
GraphIdle ==
    /\ g_req = "none"
    /\ g_op = "none"
    /\ test_name = "Reaction Time"
    /\ data_values = << >>
    /\ performance_bands = << >>
    /\ y_range = <<0, 0>>
    /\ active_bands = << >>
    /\ NoWeek

-----------------------------------------------------------------------------
(* The weekly graphs: _display_matplotlib_graphs and its fallback          *)
(* _display_text_summary on one test's week of daily scores.  A day        *)
(* without results is << >> (None), a day with results is <<score>>, the   *)
(* score in thousandths of the test's unit.                                *)

\* the weekdays Monday..Friday of a week
WeekDays == 5

\* daily scores of a test that occur in a week (raw, thousandths)
WeekScores(name) ==
    CASE name = "Reaction Time"       -> {250, 450, 700}
      [] name = "Digit Span"          -> {3000, 5000, 7000}
      [] name = "Mental Math"         -> {4000, 9000, 14000}
      [] name = "Stroop Test"         -> {1200, 2500, 3600}
      [] name = "Sustained Attention" -> {2000, 5000, 9000}
      [] OTHER                        -> {25000, 50000, 100000}

\* valid_scores = [s for s in scores if s is not None]
RECURSIVE ValidScores(_)
ValidScores(scores) ==
    IF scores = << >> THEN << >>
    ELSE Head(scores) \o ValidScores(Tail(scores))

\* a boundary that plots the raw score of every test
PlotScore_Raw(name, score) == score

\* the value plotted for a daily score: time-based scores are inverted
PlotScore(name, score) ==
    CASE name = "Reaction Time"       -> 1000 - score
      [] name = "Stroop Test"         -> 5000 - score
      [] name = "Sustained Attention" -> 13000 - score
      [] name = "Mental Math"         -> 22000 - score
      [] OTHER                        -> score

\* plot_scores of a week
PlotScores(name, scores) ==
    LET valid == ValidScores(scores)
    IN  [i \in DOMAIN valid |-> PlotScore(name, valid[i])]

\* the verdict of both views on a first and a last value
TrendVerdict(name, first_val, last_val) ==
    IF lower_better(name)
    THEN IF last_val < first_val THEN "Improving"
         ELSE IF last_val > first_val THEN "Declining" ELSE "Stable"
    ELSE IF last_val > first_val THEN "Improving"
         ELSE IF last_val < first_val THEN "Declining" ELSE "Stable"

\* the trend box of a graph: on the plotted values, from two values on
GraphTrend(name, plot_scores) ==
    IF Len(plot_scores) >= 2
    THEN TrendVerdict(name, plot_scores[1], plot_scores[Len(plot_scores)])
    ELSE "none"

\* the trend of the text summary: on the first and last valid daily score
TextTrend(name, scores) ==
    LET valid == ValidScores(scores)
    IN  IF Len(valid) >= 2
        THEN TrendVerdict(name, valid[1], valid[Len(valid)])
        ELSE "none"

WeekInit ==
    /\ g_req = "week"
    /\ g_op = "none"
    /\ test_name \in TestNames
    /\ daily_scores \in [1..WeekDays -> {<< >>} \cup {<<v>> : v \in WeekScores(test_name)}]
    /\ week_trend = [graph |-> "unset", text |-> "unset"]
    /\ data_values = << >>
    /\ performance_bands = << >>
    /\ y_range = <<0, 0>>
    /\ active_bands = << >>

\* the subplot of the test `name` with the daily scores `scores`
DrawSubplot(name, scores) ==
    LET plot_scores == PlotScores(name, scores)
        range == IF plot_scores # << >>
                 THEN _get_adaptive_y_range(name, plot_scores)
                 ELSE _get_adaptive_y_range(name, << >>)
    IN  /\ data_values' = plot_scores
        /\ performance_bands' = get_performance_bands(name)
        /\ y_range' = range
        /\ active_bands' = _get_active_performance_bands(name, range[1], range[2])
        /\ week_trend' = [week_trend EXCEPT !.graph = GraphTrend(name, plot_scores)]

\* one subplot of _display_matplotlib_graphs
DisplayMatplotlibGraphs ==
    /\ g_req = "week"
    /\ g_op = "none"
    /\ g_op' = "graphs"
    /\ DrawSubplot(test_name, daily_scores)
    /\ UNCHANGED <<g_req, test_name, daily_scores>>
    /\ UNCHANGED <<storeVars, calVars, resultVars, sumVars, testVars, loadVars>>

\* _display_text_summary, called when matplotlib is missing (before any
\* graph was drawn) or when drawing or showing the graphs raised
DisplayTextSummary ==
    /\ g_req = "week"
    /\ g_op \in {"none", "graphs"}
    /\ g_op' = "text"
    /\ week_trend' = [week_trend EXCEPT !.text = TextTrend(test_name, daily_scores)]
    /\ UNCHANGED <<g_req, test_name, daily_scores, data_values, performance_bands,
                   y_range, active_bands>>
    /\ UNCHANGED <<storeVars, calVars, resultVars, sumVars, testVars, loadVars>>

WeekNext == DisplayMatplotlibGraphs \/ DisplayTextSummary

-----------------------------------------------------------------------------
(* The environment and the calibration key.  Times of the calibration and  *)
(* of the tests are in MICROSECONDS: a sample of 0.15004 s is 150040, and  *)
(* a value in ms with one decimal (175.1 ms) is a multiple of 100.         *)

\* what _terminal_signature() returns
Sig(os, os_version, python, terminal_program, terminal_version, shell) ==
    [os |-> os, os_version |-> os_version, python |-> python,
     terminal_program |-> terminal_program, terminal_version |-> terminal_version,
     shell |-> shell]

\* the environments the program is run in
Envs ==
    { Sig("Linux",   "5.15",   "3.11.4", "",          "",      "/bin/bash"),
      Sig("Linux",   "6.1",    "3.11.4", "",          "",      "/bin/bash"),
      Sig("Linux",   "5.15",   "3.12.1", "",          "",      "/bin/bash"),
      Sig("Darwin",  "23.1.0", "3.11.4", "iTerm.app", "3.4.19", "/bin/zsh"),
      Sig("Windows", "10",     "3.11.4", "",          "",      "") }

\* f"{sig['os']}|{sig['terminal_program']}|{sig['terminal_version']}|{sig['shell']}"
_terminal_signature_key(sig) ==
    sig.os \o "|" \o sig.terminal_program \o "|" \o sig.terminal_version
        \o "|" \o sig.shell

\* A file is [kind, data]: "missing"; "object", a JSON object, which is data;
\* "bad_json", text that is no JSON; "not_object", JSON that is no object (data
\* is the value); "bad_bytes", bytes that are no text in the encoding of open().
NoFile == [kind |-> "missing", data |-> << >>]

\* json.dump(d, f) of a dict into a file opened with 'w'
JsonDump(d) == [kind |-> "object", data |-> d]

\* the Python list [], which json.load returns for the text "[]"; no store has
\* a key py_list
PyList == [py_list |-> << >>]

\* the value is a dict
IsMapping(v) == "py_list" \notin DOMAIN v

\* the file a run of the program left: none when nothing was saved
FileOfStore(d) == IF d = << >> THEN NoFile ELSE JsonDump(d)

\* json.load(f) of an existing file: the value, or the exception raised
json_load(file) ==
    CASE file.kind = "object"     -> [raises |-> "none", value |-> file.data]
      [] file.kind = "not_object" -> [raises |-> "none", value |-> file.data]
      [] file.kind = "bad_json"   -> [raises |-> "JSONDecodeError", value |-> << >>]
      [] file.kind = "bad_bytes"  -> [raises |-> "UnicodeDecodeError", value |-> << >>]

\* the body the three loaders share: {} without the file and after a
\* JSONDecodeError or FileNotFoundError, else what json.load returns or raises
LoadStore(file) ==
    IF file.kind = "missing" THEN [raises |-> "none", value |-> << >>]
    ELSE LET loaded == json_load(file)
         IN  IF loaded.raises \in {"JSONDecodeError", "FileNotFoundError"}
             THEN [raises |-> "none", value |-> << >>]
             ELSE loaded

\* a dictionary assignment that keeps the value a key already has
DictSet_KeepOld(d, key, value) ==
    [k \in DOMAIN d \cup {key} |-> IF k \in DOMAIN d THEN d[k] ELSE value]

\* d[key] = value
DictSet(d, key, value) ==
    [k \in DOMAIN d \cup {key} |-> IF k = key THEN value ELSE d[k]]

\* a baseline taken from any entry of the store, whatever terminal it is of
AnyBaseline ==
    IF terminal_calibration = << >> THEN 0
    ELSE terminal_calibration[CHOOSE k \in DOMAIN terminal_calibration :
             \A j \in DOMAIN terminal_calibration :
                 terminal_calibration[k].median_ms <= terminal_calibration[j].median_ms].median_ms

\* get_active_baseline_seconds: median_ms / 1000.0 of the entry of the active
\* terminal, else 0.0 (seconds; here in microseconds)
get_active_baseline_seconds ==
    LET key == _terminal_signature_key(env)
    IN  IF key \in DOMAIN terminal_calibration /\ "median_ms" \in DOMAIN terminal_calibration[key]
        THEN terminal_calibration[key].median_ms
        ELSE 0

-----------------------------------------------------------------------------
(* The statistics of _save_calibration_results *)

\* Python's round(): the nearest integer to num/den, a tie going to the even one
RoundHalfEven(num, den) ==
    LET q == num \div den
        r == num % den
    IN  IF 2 * r < den THEN q
        ELSE IF 2 * r > den THEN q + 1
        ELSE IF q % 2 = 0 THEN q ELSE q + 1

\* round(x, 1) of a value in ms: to a tenth of a ms, that is to 100 microseconds
Round1(x) == 100 * RoundHalfEven(x, 100)

\* list.sort(), ascending
RECURSIVE Insert(_, _)
Insert(x, s) ==
    IF s = << >> THEN <<x>>
    ELSE IF x <= s[1] THEN <<x>> \o s
    ELSE <<s[1]>> \o Insert(x, Tail(s))

RECURSIVE Sorted(_)
Sorted(s) == IF s = << >> THEN << >> ELSE Insert(s[1], Sorted(Tail(s)))

\* a median that takes the largest element
Median_Largest(sorted) == sorted[Len(sorted)]

\* statistics.median of a sorted non-empty list (the model's sample values are
\* even, so the mean of the two middle values of an even-sized list is exact)
Median(sorted) ==
    LET n == Len(sorted)
    IN  IF n % 2 = 1 THEN sorted[(n + 1) \div 2]
        ELSE (sorted[n \div 2] + sorted[n \div 2 + 1]) \div 2

\* an index that truncates p * (n - 1) instead of rounding it
PercentileIndex_Floor(pct, n) == (pct * (n - 1)) \div 100 + 1

\* samples_ms[int(max(0, round(p * (len(samples_ms) - 1))))], p = pct/100,
\* 0-based in the source and 1-based here
PercentileIndex(pct, n) == Max2(0, RoundHalfEven(pct * (n - 1), 100)) + 1

\* the entry written for a non-empty list of samples
CalibrationEntry(samples_list, method_name, sig, now) ==
    LET samples_ms == Sorted(samples_list)
        n == Len(samples_ms)
    IN  [median_ms |-> Round1(Median(samples_ms)),
         p10_ms    |-> Round1(samples_ms[PercentileIndex(10, n)]),
         p90_ms    |-> Round1(samples_ms[PercentileIndex(90, n)]),
         samples   |-> n,
         method    |-> method_name,
         timestamp |-> now,
         env       |-> sig]

MethodName(method) ==
    CASE method = "AppleScript" -> "AppleScript automation"
      [] method = "SendKeys"    -> "PowerShell SendKeys"
      [] method = "Manual"      -> "Manual timing"

\* a save without the early return, which takes an empty list for one zero
_save_calibration_results_NoGuard(store, file, samples_list, method_name, sig, now) ==
    LET saved == DictSet(store, _terminal_signature_key(sig),
                         CalibrationEntry(IF samples_list = << >> THEN <<0>>
                                          ELSE samples_list,
                                          method_name, sig, now))
    IN  <<saved, JsonDump(saved)>>

\* _save_calibration_results(samples, method_name): <<self.terminal_calibration,
\* the calibration file>> after the call, given the two before it
_save_calibration_results(store, file, samples_list, method_name, sig, now) ==
    IF samples_list = << >> THEN <<store, file>>
    ELSE LET saved == DictSet(store, _terminal_signature_key(sig),
                              CalibrationEntry(samples_list, method_name, sig, now))
         IN  <<saved, JsonDump(saved)>>

\* what _save_calibration_results prints first
SaveMessage(samples_list) ==
    IF samples_list = << >> THEN "No samples recorded." ELSE "Calibration complete"

-----------------------------------------------------------------------------
(* A calibration run *)

\* the response time a trial measures, in microseconds (lists of different
\* samples are in TestStores)
SampleVals == {150040}

StoreInit ==
    /\ env \in Envs
    /\ terminal_calibration = << >>
    /\ calibration_file = NoFile

CalIdle ==
    /\ cal_pc = "menu"
    /\ cal_method = "none"
    /\ cal_i = 0
    /\ samples = << >>
    /\ errors = 0
    /\ streak = 0
    /\ msg = ""
    /\ cal_runs = 0
    /\ restarts = 0
    /\ cal_at_start = << >>
    /\ file_at_start = NoFile
    /\ cal_end = "none"

\* the prompt "Press ENTER to begin" of method m
ToReady(m) ==
    /\ cal_pc' = "ready"
    /\ cal_method' = m
    /\ UNCHANGED <<cal_i, samples, errors, streak>>

\* calibrate_terminal_latency: main menu choice 11
CalibrateTerminalLatency ==
    /\ cal_pc = "menu"
    /\ t_pc = "menu"
    /\ sum_op = "none"
    /\ g_op = "none"
    /\ cal_runs < MaxCalRuns
    /\ cal_runs' = cal_runs + 1
    /\ cal_at_start' = terminal_calibration
    /\ file_at_start' = calibration_file
    /\ cal_end' = "none"
    /\ msg' = ""
    /\ cal_pc' = (IF env.os = "Windows" THEN "win_menu" ELSE "ready")
    /\ cal_method' = (IF env.os = "Darwin" THEN "AppleScript"
                      ELSE IF env.os = "Windows" THEN "none" ELSE "Manual")
    /\ cal_i' = 0
    /\ samples' = << >>
    /\ errors' = 0
    /\ streak' = 0
    /\ UNCHANGED <<restarts, storeVars, graphVars, resultVars, sumVars, testVars, loadVars>>

\* _calibrate_windows_terminal, choice '1': _calibrate_windows_sendkeys and its
\* probe of PowerShell, which falls back to the manual method when it fails
WindowsSendKeys ==
    /\ cal_pc = "win_menu"
    /\ \E probe_ok \in BOOLEAN :
          IF probe_ok
          THEN ToReady("SendKeys") /\ msg' = "PowerShell SendKeys test successful!"
          ELSE ToReady("Manual") /\ msg' = "Falling back to manual calibration."
    /\ UNCHANGED <<cal_runs, restarts, cal_at_start, file_at_start, cal_end>>
    /\ UNCHANGED <<storeVars, graphVars, resultVars, sumVars, testVars, loadVars>>

\* choice '2'
WindowsManual ==
    /\ cal_pc = "win_menu"
    /\ ToReady("Manual")
    /\ UNCHANGED <<msg, cal_runs, restarts, cal_at_start, file_at_start, cal_end>>
    /\ UNCHANGED <<storeVars, graphVars, resultVars, sumVars, testVars, loadVars>>

\* choice '3', or anything else ("Invalid choice."): back to the main menu
WindowsBack ==
    /\ cal_pc = "win_menu"
    /\ \E valid \in BOOLEAN : msg' = (IF valid THEN "" ELSE "Invalid choice.")
    /\ cal_pc' = "menu"
    /\ cal_end' = "not_run"
    /\ UNCHANGED <<cal_method, cal_i, samples, errors, streak>>
    /\ UNCHANGED <<cal_runs, restarts, cal_at_start, file_at_start>>
    /\ UNCHANGED <<storeVars, graphVars, resultVars, sumVars, testVars, loadVars>>

\* ENTER at the prompt: samples = [], errors = 0, and the loop starts at i = 1
BeginTrials ==
    /\ cal_pc = "ready"
    /\ cal_pc' = "loop"
    /\ cal_i' = 1
    /\ samples' = << >>
    /\ errors' = 0
    /\ streak' = 0
    /\ UNCHANGED <<cal_method, msg, cal_runs, restarts, cal_at_start, file_at_start, cal_end>>
    /\ UNCHANGED <<storeVars, graphVars, resultVars, sumVars, testVars, loadVars>>

\* Ctrl+C at the prompt, which no try of the method encloses: the
\* KeyboardInterrupt reaches main_menu, which prints and shows the menu again
InterruptAtPrompt ==
    /\ cal_pc \in {"ready", "win_menu"}
    /\ cal_pc' = "menu"
    /\ msg' = "Test interrupted. Returning to main menu..."
    /\ cal_end' = "not_run"
    /\ UNCHANGED <<cal_method, cal_i, samples, errors, streak>>
    /\ UNCHANGED <<cal_runs, restarts, cal_at_start, file_at_start>>
    /\ UNCHANGED <<storeVars, graphVars, resultVars, sumVars, testVars, loadVars>>

\* the loop is left with the list `final`: _save_calibration_results(final, ...)
\* is called, and the method returns to the main menu
LeaveLoop(final, how) ==
    /\ cal_pc' = "menu"
    /\ samples' = final
    /\ LET saved == _save_calibration_results(terminal_calibration, calibration_file,
                                               final, MethodName(cal_method),
                                               env, cal_runs)
       IN  /\ terminal_calibration' = saved[1]
           /\ calibration_file' = saved[2]
    /\ msg' = SaveMessage(final)
    /\ cal_end' = how
    /\ UNCHANGED <<env, cal_method, cal_i>>

\* the loop goes on with the next i
NextTrial(final) ==
    /\ cal_i' = cal_i + 1
    /\ samples' = final
    /\ UNCHANGED <<cal_pc, cal_method, msg, cal_end, storeVars>>

\* a trial that measures dt: samples.append(dt)
TrialMeasured ==
    /\ cal_pc = "loop"
    /\ \E dt \in SampleVals :
          LET final == Append(samples, dt)
          IN  IF cal_i < TrialCount THEN NextTrial(final)
              ELSE LeaveLoop(final, "completed")
    /\ streak' = 0
    /\ UNCHANGED <<errors, cal_runs, restarts, cal_at_start, file_at_start, graphVars, resultVars, sumVars, testVars, loadVars>>

\* subprocess.CalledProcessError in a trial of an automated method: errors += 1;
\* the AppleScript loop breaks at once, the SendKeys loop when errors >= 3
TrialAutomationFailed ==
    /\ cal_pc = "loop"
    /\ cal_method \in {"AppleScript", "SendKeys"}
    /\ errors' = errors + 1
    /\ streak' = streak + 1
    /\ IF cal_method = "AppleScript" \/ errors' >= 3
       THEN LeaveLoop(samples, "failed")
       ELSE IF cal_i < TrialCount THEN NextTrial(samples)
            ELSE LeaveLoop(samples, "completed")
    /\ UNCHANGED <<cal_runs, restarts, cal_at_start, file_at_start, graphVars, resultVars, sumVars, testVars, loadVars>>

\* KeyboardInterrupt in a trial: "Calibration interrupted.", break
TrialInterrupted ==
    /\ cal_pc = "loop"
    /\ LeaveLoop(samples, "interrupted")
    /\ UNCHANGED <<errors, streak, cal_runs, restarts, cal_at_start, file_at_start, graphVars, resultVars, sumVars, testVars, loadVars>>

load_terminal_calibration == LoadStore(calibration_file)

\* the program is left (main menu choice 12) and started again, maybe in another
\* environment: __init__ loads the calibration file, which is missing or was
\* written by _save_calibration_results
Restart ==
    /\ cal_pc = "menu"
    /\ restarts < MaxRestarts
    /\ restarts' = restarts + 1
    /\ env' \in Envs
    /\ terminal_calibration' = load_terminal_calibration.value
    /\ msg' = ""
    /\ cal_end' = "none"
    /\ UNCHANGED <<calibration_file, cal_pc, cal_method, cal_i, samples, errors, streak>>
    /\ UNCHANGED <<cal_runs, cal_at_start, file_at_start, graphVars, resultVars, sumVars, testVars, loadVars>>

\* samples of 10 ms, 30 ms and 150.04 ms
StatVals == {10000, 30000, 150040}

\* the samples 30, 10, 50, 20, 40 ms
FiveSamples == <<30000, 10000, 50000, 20000, 40000>>

\* the sample lists whose statistics are computed
StatLists == {FiveSamples} \cup UNION {[1..k -> StatVals] : k \in 1..MaxSamples}

\* the trial loop of a manual calibration has collected a list of samples
StatsInit ==
    /\ cal_pc = "collected"
    /\ cal_method = "Manual"
    /\ samples \in StatLists
    /\ cal_i = Len(samples)
    /\ errors = 0
    /\ streak = 0
    /\ msg = ""
    /\ cal_runs = 1
    /\ restarts = 0
    /\ cal_at_start = terminal_calibration
    /\ file_at_start = calibration_file
    /\ cal_end = "none"

\* _save_calibration_results(samples, "Manual timing") after the loop
SaveCalibrationResults ==
    /\ cal_pc = "collected"
    /\ LeaveLoop(samples, "completed")
    /\ UNCHANGED <<errors, streak, cal_runs, restarts, cal_at_start, file_at_start, graphVars, resultVars, sumVars, testVars, loadVars>>

CalNext ==
    \/ CalibrateTerminalLatency
    \/ WindowsSendKeys
    \/ WindowsManual
    \/ WindowsBack
    \/ BeginTrials
    \/ InterruptAtPrompt
    \/ TrialMeasured
    \/ TrialAutomationFailed
    \/ TrialInterrupted
    \/ Restart

-----------------------------------------------------------------------------
(* The results store.  A score that is a time is in microseconds, as the   *)
(* calibration samples are; a score that is a count or a percentage is in  *)
(* thousandths, as the band table is.                                      *)

\* sum(list)
RECURSIVE Sum(_)
Sum(s) == IF s = << >> THEN 0 ELSE s[1] + Sum(Tail(s))

\* how many elements of a list satisfy a test given as the set of good values
RECURSIVE CountIn(_, _)
CountIn(s, good) ==
    IF s = << >> THEN 0
    ELSE (IF s[1] \in good THEN 1 ELSE 0) + CountIn(Tail(s), good)

\* round(x, 3) of a time in seconds: to a millisecond, that is to 1000 microseconds
Round3(x) == 1000 * RoundHalfEven(x, 1000)

\* round(x, 1) of a time in seconds: to 100000 microseconds
Round1s(x) == 100000 * RoundHalfEven(x, 100000)

\* round(x, 2) of a time in seconds: to 10000 microseconds
Round2(x) == 10000 * RoundHalfEven(x, 10000)

\* round(part / whole * 100, 1) if whole > 0 else 0: a percentage in thousandths
Percent1(part, whole) ==
    IF whole > 0 THEN 100 * RoundHalfEven(part * 1000, whole) ELSE 0

\* a record_result that starts the list of the test anew
record_result_Replace(store, name, score, details, now) ==
    DictSet(store, name, <<[timestamp |-> now, score |-> score, details |-> details]>>)

\* record_result(test_name, score, details) at the time now: the result is
\* appended to the list of the test, which is created when it is missing
record_result(store, name, score, details, now) ==
    LET old == IF name \in DOMAIN store THEN store[name] ELSE << >>
    IN  DictSet(store, name,
                Append(old, [timestamp |-> now, score |-> score, details |-> details]))

\* no result was recorded yet
ResultsEmpty ==
    /\ results = << >>
    /\ results_file = NoFile

-----------------------------------------------------------------------------
(* The results summary: the overall statistics of display_all_results *)

\* one second, one digit or one percent in the unit of the scores of a test
ScoreUnit(name) ==
    IF name \in {"Digit Span", "Word Recall"} THEN 1000 ELSE 1000000

\* a score that is adjusted anew with the active baseline at every display
SummaryScore_Recompute(name, r) ==
    IF name = "Reaction Time"
    THEN Max2(0, r.score - get_active_baseline_seconds)
    ELSE r.score

\* the score of a result as the summary uses it: for Reaction Time the cached
\* adjusted average, or the raw score less the active baseline, not below zero
SummaryScore(name, r) ==
    IF name = "Reaction Time"
    THEN IF "adjusted_average_s" \in DOMAIN r.details
         THEN r.details.adjusted_average_s
         ELSE Max2(0, r.score - get_active_baseline_seconds)
    ELSE r.score

SummaryScores(name, test_results) ==
    [i \in 1..Len(test_results) |-> SummaryScore(name, test_results[i])]

Abs(x) == IF x >= 0 THEN x ELSE -x

\* the trend line: the mean of the last three scores against the mean of the
\* first three; no line with fewer than six scores.  The means are compared by
\* their sums, and change is truncated to the unit of the scores.
Trend(name, scores) ==
    IF Len(scores) >= 6
    THEN LET n == Len(scores)
             first_three == scores[1] + scores[2] + scores[3]
             last_three == scores[n - 2] + scores[n - 1] + scores[n]
         IN  [trend |-> IF lower_better(name)
                        THEN (IF last_three < first_three THEN "improving" ELSE "declining")
                        ELSE (IF last_three > first_three THEN "improving" ELSE "declining"),
              change |-> Abs(last_three - first_three) \div 3]
    ELSE [trend |-> "none", change |-> 0]

\* the scores the enumerated histories are made of, in seconds, digits or percent
TrendVals == {8, 11, 14}

\* scores falling from 15 to 7
FallingScores == <<15, 14, 13, 9, 8, 7>>

\* the score lists of the enumerated histories
TrendLists ==
    {FallingScores} \cup UNION {[1..k -> TrendVals] : k \in 5..MaxTrendLen}

\* a history of one test: results number i has the score scores[i] and no details
History(name, scores) ==
    name :> [i \in 1..Len(scores) |->
                [timestamp |-> i, score |-> scores[i] * ScoreUnit(name), details |-> << >>]]

\* a results file with the history of one test
SummaryInit ==
    /\ \E name \in TestNames, scores \in TrendLists :
          /\ results = History(name, scores)
          /\ results_file = JsonDump(results)
    /\ sum_op = "none"
    /\ summary = << >>

SummaryIdle ==
    /\ sum_op = "none"
    /\ summary = << >>

\* the best score: min(scores) when lower is better, else max(scores)
Best(name, scores) ==
    IF lower_better(name) THEN ListMin(scores) ELSE ListMax(scores)

\* the statistics lines of display_all_results with their values: "Overall
\* average" and "Latest" always, "Best" with more than one score; the average
\* is truncated to the unit of the scores
OverallStats(name, scores) ==
    LET always == ("average" :> Sum(scores) \div Len(scores))
                      @@ ("latest" :> scores[Len(scores)])
    IN  IF Len(scores) > 1 THEN always @@ ("best" :> Best(name, scores)) ELSE always

\* the lines of the block "Statistics:" of display_results, which is printed
\* only with more than one result
HistoryStats(name, scores) ==
    IF Len(scores) > 1
    THEN ("average" :> Sum(scores) \div Len(scores))
             @@ ("best" :> Best(name, scores))
             @@ ("latest" :> scores[Len(scores)])
    ELSE << >>

\* main menu choice 8: the overall statistics of every test with results: the
\* scores they are computed from, the statistics lines and the trend line
DisplayAllResults ==
    /\ sum_op = "none"
    /\ t_pc = "menu"
    /\ cal_pc = "menu"
    /\ g_op = "none"
    /\ sum_op' = "shown"
    /\ summary' = [name \in {t \in DOMAIN results : results[t] # << >>} |->
                      LET scores == SummaryScores(name, results[name])
                          line == Trend(name, scores)
                      IN  [scores |-> scores, stats |-> OverallStats(name, scores),
                           trend |-> line.trend, change |-> line.change]]
    /\ UNCHANGED <<graphVars, storeVars, calVars, resultVars, testVars, loadVars>>

\* results[-10:] of display_results
HistoryShown == 10

\* the last n elements of a list
LastN(s, n) == IF Len(s) <= n THEN s ELSE SubSeq(s, Len(s) - n + 1, Len(s))

\* main menu choice 7 and a test: display_results(test_name) lists the last ten
\* results with their scores and, when there is more than one result, computes
\* the statistics from the scores of all; without results of the test it only
\* says so
DisplayResults ==
    /\ sum_op = "none"
    /\ t_pc = "menu"
    /\ cal_pc = "menu"
    /\ g_op = "none"
    /\ sum_op' = "history"
    /\ \E name \in TestNames :
          summary' = IF name \in DOMAIN results /\ results[name] # << >>
                     THEN LET scores == SummaryScores(name, results[name])
                          IN  name :> [scores |-> IF Len(scores) > 1 THEN scores ELSE << >>,
                                       stats |-> HistoryStats(name, scores),
                                       listed |-> LastN(scores, HistoryShown)]
                     ELSE << >>
    /\ UNCHANGED <<graphVars, storeVars, calVars, resultVars, testVars, loadVars>>

\* the summary or the history is left
SummaryClosed ==
    /\ sum_op # "none"
    /\ sum_op' = "none"
    /\ summary' = << >>
    /\ UNCHANGED <<graphVars, storeVars, calVars, resultVars, testVars, loadVars>>

SummaryNext == DisplayAllResults \/ DisplayResults \/ SummaryClosed

-----------------------------------------------------------------------------
(* The six tests.  A step of a test is what the program does from one      *)
(* blocking read to the next: the last answer of a run includes the score, *)
(* record_result and save_results, up to the prompt "Press Enter to        *)
(* continue...".                                                           *)

\* trials = 5 of reaction_time_test
ReactionTrials == 5
\* the reaction times that are measured (0.25 s, 0.4 s)
ReactionVals == {250000, 400000}

\* span_length = 3 and while span_length <= 10 of digit_span_test
FirstSpan == 3
LastSpan == 10

\* the 60 seconds of mental_math_test and its penalty of 10.0 seconds
TimeLimit == 60000000
PenaltyTime == 10000000
\* how long an answer takes (25 s, 40 s)
MathDurations == {25000000, 40000000}

\* test_words: the twelve words that were sampled
TestWords == {"apple", "chair", "house", "river", "table", "music",
              "paper", "water", "light", "green", "horse", "bread"}
\* the lines that are typed at "Word: "
RecallLines == {"apple", "Chair ", "zebra", ""}

\* input(...).strip().lower()
StripLower(line) ==
    CASE line = "Chair " -> "chair"
      [] OTHER           -> line

\* the timeout of select.select in stroop_test: 3.0 seconds
SelectTimeout == 3000000
\* response times: of a line that was waiting in stdin, of a quick answer,
\* of a trial that timed out, of an answer to the blocking input()
StaleTime == 150
QuickTime == 1200000
TimedOut == 3000150
SlowTime == 5000000

\* start_number = 100 of sustained_attention_test
StartNumber == 100
\* the values of counting_options that are drawn
CountingOptions == {17, 19}
\* how long a line takes to type (3 s)
AnswerTime == 3000000

\* len(correct_sequence): start_number, start_number - count_by, ... down to >= 0
SequenceLength(count_by) == StartNumber \div count_by + 1

\* the local variables of a test before its first trial; user_input is the kind
\* of the line read last
InitialLocals(name, count_by) ==
    CASE name = "Reaction Time" -> [times |-> << >>]
      [] name = "Digit Span"    -> [span_length |-> FirstSpan, max_span |-> 0]
      [] name = "Mental Math"   -> [elapsed |-> 0, correct |-> 0, total |-> 0,
                                    problem_times |-> << >>, penalty_time |-> 0,
                                    user_input |-> "none"]
      [] name = "Word Recall"   -> [studied |-> FALSE, recalled_words |-> << >>]
      [] name = "Stroop Test"   -> [correct |-> 0, total |-> 0, times |-> << >>,
                                    timeouts |-> 0, pending |-> "none"]
      [] name = "Sustained Attention" ->
                                   [count_by |-> count_by, position |-> 1,
                                    correct |-> 0, total |-> 0, lines |-> 0,
                                    user_input |-> "none"]

NoLocals == [none |-> 0]

\* no test is running
TestIdle ==
    /\ t_pc = "menu"
    /\ t_test = "none"
    /\ locals = NoLocals
    /\ t_runs = 0
    /\ t_interrupts = 0
    /\ t_end = "none"
    /\ results_at_start = << >>
    /\ resfile_at_start = NoFile

\* one of the tests `names` is chosen at the main menu: the test prints its
\* instructions and waits for Enter
StartTestOf(names) ==
    /\ sum_op = "none"
    /\ cal_pc = "menu"
    /\ g_op = "none"
    /\ t_runs < MaxTestRuns
    /\ \E name \in names, count_by \in CountingOptions :
          /\ t_test' = name
          /\ locals' = InitialLocals(name, count_by)
    /\ t_pc' = "ready"
    /\ t_runs' = t_runs + 1
    /\ t_interrupts' = 0
    /\ t_end' = "none"
    /\ results_at_start' = results
    /\ resfile_at_start' = results_file
    /\ UNCHANGED <<graphVars, storeVars, calVars, resultVars, sumVars, loadVars>>

\* main menu choices 1 to 6
StartTest ==
    /\ t_pc = "menu"
    /\ StartTestOf(TestNames)

\* Enter at the first prompt: the test enters its try block
BeginTest ==
    /\ t_pc = "ready"
    /\ t_pc' = "running"
    /\ UNCHANGED <<t_test, locals, t_runs, t_interrupts, t_end,
                   results_at_start, resfile_at_start>>
    /\ UNCHANGED <<graphVars, storeVars, calVars, resultVars, sumVars, loadVars>>

\* Ctrl+C at the first prompt, which is before the try block: the exception
\* leaves the test and is caught by main_menu
InterruptAtFirstPrompt ==
    /\ t_pc = "ready"
    /\ t_pc' = "menu"
    /\ t_interrupts' = t_interrupts + 1
    /\ t_end' = "interrupted"
    /\ UNCHANGED <<t_test, locals, t_runs, results_at_start, resfile_at_start>>
    /\ UNCHANGED <<graphVars, storeVars, calVars, resultVars, sumVars, loadVars>>

\* Ctrl+C inside the try block of a test, at a read or a sleep that no inner
\* handler covers: except KeyboardInterrupt prints "... was cancelled. No data
\* saved." and waits for Enter
TestInterrupted ==
    /\ t_pc \in {"running", "fallback"}
    /\ t_pc' = "cancelled"
    /\ t_interrupts' = t_interrupts + 1
    /\ t_end' = "interrupted"
    /\ UNCHANGED <<t_test, locals, t_runs, results_at_start, resfile_at_start>>
    /\ UNCHANGED <<graphVars, storeVars, calVars, resultVars, sumVars, loadVars>>

\* Enter (or Ctrl+C) at the last prompt of a test: back to the main menu
ReturnToMenu ==
    /\ t_pc \in {"cancelled", "shown"}
    /\ t_pc' = "menu"
    /\ UNCHANGED <<t_test, locals, t_runs, t_interrupts, t_end,
                   results_at_start, resfile_at_start>>
    /\ UNCHANGED <<graphVars, storeVars, calVars, resultVars, sumVars, loadVars>>

\* the test goes on with new local variables
Continue(new_locals) ==
    /\ locals' = new_locals
    /\ t_pc' = "running"
    /\ UNCHANGED <<t_test, t_runs, t_interrupts, t_end, results_at_start, resfile_at_start>>
    /\ UNCHANGED <<graphVars, storeVars, calVars, resultVars, sumVars, loadVars>>

\* the test is over: the result is recorded and saved and the results are shown
Complete(new_locals, score, details) ==
    /\ locals' = new_locals
    /\ results' = record_result(results, t_test, score, details, t_runs)
    /\ results_file' = JsonDump(results')
    /\ t_pc' = "shown"
    /\ t_end' = "completed"
    /\ UNCHANGED <<t_test, t_runs, t_interrupts, results_at_start, resfile_at_start>>
    /\ UNCHANGED <<graphVars, storeVars, calVars, sumVars, loadVars>>

\* reaction_time_test: Enter after "GO!".  After the last trial the average,
\* the baseline and the adjusted average are computed and the result recorded.
ReactionTrial ==
    /\ t_pc = "running"
    /\ t_test = "Reaction Time"
    /\ \E reaction_time \in ReactionVals :
          LET times == Append(locals.times, reaction_time)
              average_time == Sum(times) \div Len(times)
              baseline == get_active_baseline_seconds
              avg_adjusted == Max2(0, average_time - baseline)
          IN  IF Len(times) < ReactionTrials
              THEN Continue([times |-> times])
              ELSE Complete([times |-> times], average_time,
                            [trials |-> ReactionTrials,
                             times |-> [i \in 1..Len(times) |-> Round3(times[i])],
                             adjusted_average_s |-> Round3(avg_adjusted),
                             baseline_ms |-> Round1(baseline)])

\* digit_span_test: the digits are typed back, right or wrong
DigitSpanAnswer ==
    /\ t_pc = "running"
    /\ t_test = "Digit Span"
    /\ \E right \in BOOLEAN :
          LET max_span == IF right THEN locals.span_length ELSE locals.max_span
              span_length == IF right THEN locals.span_length + 1 ELSE locals.span_length
              new_locals == [span_length |-> span_length, max_span |-> max_span]
          IN  IF right /\ span_length <= LastSpan
              THEN Continue(new_locals)
              ELSE Complete(new_locals, max_span * 1000,
                            [max_digits_recalled |-> max_span])

\* mental_math_test: an answer to a problem: the right sum, a wrong number, or
\* a line that is no number.  The loop ends when 60 seconds have passed.
MentalMathAnswer ==
    /\ t_pc = "running"
    /\ t_test = "Mental Math"
    /\ locals.elapsed < TimeLimit
    /\ \E problem_time \in MathDurations, answer \in {"right", "wrong", "invalid"} :
          LET right == answer = "right"
              new_locals ==
                  [elapsed |-> locals.elapsed + problem_time,
                   correct |-> locals.correct + (IF right THEN 1 ELSE 0),
                   total |-> locals.total + 1,
                   problem_times |-> Append(locals.problem_times,
                        IF right THEN problem_time ELSE problem_time + PenaltyTime),
                   penalty_time |-> locals.penalty_time + (IF right THEN 0 ELSE PenaltyTime),
                   user_input |-> answer]
              avg_time_per_problem ==
                  Sum(new_locals.problem_times) \div Len(new_locals.problem_times)
          IN  IF new_locals.elapsed < TimeLimit
              THEN Continue(new_locals)
              ELSE Complete(new_locals, avg_time_per_problem,
                            [problems_attempted |-> new_locals.total,
                             correct_answers |-> new_locals.correct,
                             accuracy_percent |-> Percent1(new_locals.correct, new_locals.total),
                             avg_time_per_problem |-> Round2(avg_time_per_problem),
                             penalty_time |-> new_locals.penalty_time,
                             time_limit |-> 60])

\* word_recall_test: the 30 seconds of study are over
WordRecallStudied ==
    /\ t_pc = "running"
    /\ t_test = "Word Recall"
    /\ ~locals.studied
    /\ Continue([locals EXCEPT !.studied = TRUE])

\* word_recall_test: a line at "Word: ": a word, or an empty line to finish.
\* Every recalled word that is in test_words counts, a repeated one again;
\* the score is truncated to a thousandth of a percent.
WordRecallLine ==
    /\ t_pc = "running"
    /\ t_test = "Word Recall"
    /\ locals.studied
    /\ \E line \in RecallLines :
          LET word == StripLower(line)
              recalled_words == locals.recalled_words
              correct_recalls == CountIn(recalled_words, TestWords)
              total_words == Cardinality(TestWords)
          IN  IF word # ""
              THEN /\ \/ Len(recalled_words) < MaxRecalled
                      \/ /\ Len(recalled_words) < MaxRepeated
                         /\ \A i \in DOMAIN recalled_words : recalled_words[i] = word
                   /\ Continue([locals EXCEPT !.recalled_words = Append(recalled_words, word)])
              ELSE Complete(locals, (correct_recalls * 100000) \div total_words,
                            [total_words |-> total_words,
                             words_recalled |-> Len(recalled_words),
                             correct_recalls |-> correct_recalls])

\* stroop_test: the end of a trial with the line response read after
\* response_time; matches says whether the line is the code of the text colour
StroopTrialDone(response, matches, response_time, timed_out, pending) ==
    LET new_locals ==
            [correct |-> locals.correct + (IF response # "" /\ matches THEN 1 ELSE 0),
             total |-> locals.total + 1,
             times |-> Append(locals.times, response_time),
             timeouts |-> locals.timeouts + (IF timed_out THEN 1 ELSE 0),
             pending |-> pending]
        total == new_locals.total
        avg_time == Sum(new_locals.times) \div Len(new_locals.times)
        fast_responses ==
            Cardinality({i \in 1..total : new_locals.times[i] <= SelectTimeout})
    IN  IF total < StroopTrials
        THEN Continue(new_locals)
        ELSE Complete(new_locals, avg_time,
                      [accuracy_percent |-> Percent1(new_locals.correct, total),
                       average_response_time |-> Round3(avg_time),
                       timeouts |-> new_locals.timeouts,
                       fast_responses |-> fast_responses,
                       time_pressure_accuracy |-> Percent1(fast_responses, total),
                       trials_completed |-> total])

\* stroop_test: select reports stdin readable within 3 seconds and the line is
\* read: a line that was already waiting is read at once, else the answer typed now
StroopResponse ==
    /\ t_pc = "running"
    /\ t_test = "Stroop Test"
    /\ \E matches \in BOOLEAN :
          IF locals.pending # "none"
          THEN StroopTrialDone(locals.pending, matches, StaleTime, FALSE, "none")
          ELSE \E response \in {"letter", ""} :
                  StroopTrialDone(response, matches, QuickTime, FALSE, "none")

\* stroop_test: nothing is typed for 3 seconds
StroopTimeout ==
    /\ t_pc = "running"
    /\ t_test = "Stroop Test"
    /\ locals.pending = "none"
    /\ StroopTrialDone("", FALSE, TimedOut, TRUE, "none")

\* a line is typed while the program does not read (a late answer to the trial
\* that timed out, or a second line): it waits in stdin
StroopLineTooLate ==
    /\ t_pc = "running"
    /\ t_test = "Stroop Test"
    /\ locals.total > 0
    /\ locals.pending = "none"
    /\ \E line \in {"letter", ""} : Continue([locals EXCEPT !.pending = line])

\* stroop_test: Ctrl+C while select or readline waits.  The bare except around
\* them catches the KeyboardInterrupt and reads with a blocking input().
StroopInterruptInSelect ==
    /\ t_pc = "running"
    /\ t_test = "Stroop Test"
    /\ locals.pending = "none"
    /\ t_pc' = "fallback"
    /\ t_interrupts' = t_interrupts + 1
    /\ UNCHANGED <<t_test, locals, t_runs, t_end, results_at_start, resfile_at_start>>
    /\ UNCHANGED <<graphVars, storeVars, calVars, resultVars, sumVars, loadVars>>

\* stroop_test: the blocking input() of the bare except returns a line
StroopFallbackLine ==
    /\ t_pc = "fallback"
    /\ \E matches \in BOOLEAN, response \in {"letter", ""} :
          StroopTrialDone(response, matches, SlowTime, FALSE, "none")

\* sustained_attention_test: a line: 'done', the expected number, another
\* number, or no number (asked again)
SustainedLine ==
    /\ t_pc = "running"
    /\ t_test = "Sustained Attention"
    /\ \E line \in {"done", "right", "wrong", "invalid"} :
          LET counted == line \in {"right", "wrong"}
              new_locals ==
                  [count_by |-> locals.count_by,
                   position |-> locals.position + (IF counted THEN 1 ELSE 0),
                   correct |-> locals.correct + (IF line = "right" THEN 1 ELSE 0),
                   total |-> locals.total + (IF counted THEN 1 ELSE 0),
                   lines |-> locals.lines + 1,
                   user_input |-> line]
              elapsed_time == new_locals.lines * AnswerTime
              correct == new_locals.correct
              total == new_locals.total
              avg_time_per_correct ==
                  IF correct > 0 THEN elapsed_time \div correct ELSE elapsed_time
          IN  IF line = "invalid"
              THEN /\ locals.lines - locals.total < MaxInvalid
                   /\ Continue(new_locals)
              ELSE IF line # "done" /\ new_locals.position < SequenceLength(locals.count_by)
              THEN Continue(new_locals)
              ELSE Complete(new_locals, avg_time_per_correct,
                            [accuracy_percent |-> Percent1(correct, total),
                             numbers_attempted |-> total,
                             correct_answers |-> correct,
                             time_taken |-> Round1s(elapsed_time),
                             avg_time_per_attempt |->
                                 IF total > 0 THEN Round2(elapsed_time \div total) ELSE 0,
                             avg_time_per_correct |-> Round2(avg_time_per_correct),
                             start_value |-> StartNumber,
                             count_by |-> locals.count_by,
                             end_value |-> StartNumber -
                                 locals.count_by * (SequenceLength(locals.count_by) - 1),
                             sequence_length |-> SequenceLength(locals.count_by)])

TestNext ==
    \/ StartTest
    \/ BeginTest
    \/ InterruptAtFirstPrompt
    \/ TestInterrupted
    \/ ReturnToMenu
    \/ ReactionTrial
    \/ DigitSpanAnswer
    \/ MentalMathAnswer
    \/ WordRecallStudied
    \/ WordRecallLine
    \/ StroopResponse
    \/ StroopTimeout
    \/ StroopLineTooLate
    \/ StroopInterruptInSelect
    \/ StroopFallbackLine
    \/ SustainedLine
    \/ DisplayAllResults
    \/ DisplayResults
    \/ SummaryClosed

\* the calibration stores the tests are run with: an empty one; one with an
\* entry of the active terminal, of a median of 175.1 ms or of 450.0 ms; one
\* with an entry of another terminal only, of a median of 90.0 ms; one with both
TestStores ==
    LET sig == Sig("Linux", "5.15", "3.11.4", "", "", "/bin/bash")
        key == _terminal_signature_key(sig)
        other_sig == Sig("Darwin", "23.1.0", "3.11.4", "iTerm.app", "3.4.19", "/bin/zsh")
        other_key == _terminal_signature_key(other_sig)
        other == CalibrationEntry(<<90020>>, "AppleScript automation", other_sig, 0)
    IN  { << >>,
          key :> CalibrationEntry(<<150040, 200160>>, "Manual timing", sig, 0),
          key :> CalibrationEntry(<<450020>>, "Manual timing", sig, 0),
          other_key :> other,
          (key :> CalibrationEntry(<<150040, 200160>>, "Manual timing", sig, 0))
              @@ (other_key :> other) }

\* the results files the tests are run with: none, and one with a Reaction Time
\* result of 0.3 s that has no details, as a version without calibration wrote it
ResultsOnDisk ==
    { << >>,
      "Reaction Time" :> <<[timestamp |-> 0, score |-> 300000, details |-> << >>]>> }

ResultsForTests ==
    /\ results \in ResultsOnDisk
    /\ results_file = FileOfStore(results)

StoreForTests ==
    /\ env = Sig("Linux", "5.15", "3.11.4", "", "", "/bin/bash")
    /\ terminal_calibration \in TestStores
    /\ calibration_file = FileOfStore(terminal_calibration)

-----------------------------------------------------------------------------
(* The start of the program: __init__ loads the three stores *)

load_results == LoadStore(results_file)

load_sleep_log == LoadStore(sleep_file)

\* the program is running on loaded stores; the sleep log is empty
Started ==
    /\ sleep_log = << >>
    /\ sleep_file = NoFile
    /\ boot = "up"
    /\ raised = "none"

\* the conditions of a file whose object, when it holds one, is d
FilesWith(d) ==
    { NoFile,
      JsonDump(d),
      [kind |-> "bad_json", data |-> << >>],
      [kind |-> "not_object", data |-> PyList],
      [kind |-> "bad_bytes", data |-> << >>] }

\* a night of 7 h 30 min
SleepEntry == [hours |-> 7, minutes |-> 30, total_minutes |-> 450]

\* before the start: nothing is loaded, the three files are in any condition
LoadInit ==
    /\ env = Sig("Linux", "5.15", "3.11.4", "", "", "/bin/bash")
    /\ results = << >>
    /\ sleep_log = << >>
    /\ terminal_calibration = << >>
    /\ results_file \in FilesWith("Digit Span" :> <<[timestamp |-> 0, score |-> 7000,
                                                    details |-> [max_digits_recalled |-> 7]]>>)
    /\ sleep_file \in FilesWith("2025-01-01" :> SleepEntry)
    /\ calibration_file \in FilesWith(
           _terminal_signature_key(env) :>
               CalibrationEntry(<<150040>>, "Manual timing", env, 0))
    /\ boot = "off"
    /\ raised = "none"

\* an exception nothing catches ends the program
Crash(exception) ==
    /\ boot' = "crashed"
    /\ raised' = exception

\* InsomniappSuite(): load_results, load_sleep_log, load_terminal_calibration
\* in this order; an exception of a loader leaves __init__ at once
Construct ==
    /\ boot = "off"
    /\ LET r == load_results
           l == load_sleep_log
           c == load_terminal_calibration
       IN  IF r.raises # "none"
           THEN Crash(r.raises) /\ UNCHANGED <<results, sleep_log, terminal_calibration>>
           ELSE IF l.raises # "none"
           THEN Crash(l.raises) /\ results' = r.value
                /\ UNCHANGED <<sleep_log, terminal_calibration>>
           ELSE IF c.raises # "none"
           THEN Crash(c.raises) /\ results' = r.value /\ sleep_log' = l.value
                /\ UNCHANGED terminal_calibration
           ELSE /\ boot' = "up"
                /\ raised' = "none"
                /\ results' = r.value
                /\ sleep_log' = l.value
                /\ terminal_calibration' = c.value
    /\ UNCHANGED <<env, calibration_file, results_file, sleep_file>>
    /\ UNCHANGED <<graphVars, calVars, sumVars, testVars>>

\* record_result at the end of a Digit Span test: self.results[test_name] = []
\* or .append on a value that is no dict raises TypeError
RecordResult ==
    /\ boot = "up"
    /\ IF IsMapping(results)
       THEN /\ ~("Digit Span" \in DOMAIN results /\ Len(results["Digit Span"]) > 1)
            /\ results' = record_result(results, "Digit Span", 5000,
                                        [max_digits_recalled |-> 5], 1)
            /\ results_file' = JsonDump(results')
            /\ UNCHANGED <<boot, raised>>
       ELSE Crash("TypeError") /\ UNCHANGED <<results, results_file>>
    /\ UNCHANGED <<sleep_log, sleep_file, storeVars>>
    /\ UNCHANGED <<graphVars, calVars, sumVars, testVars>>

\* log_sleep(date_str, hours, minutes): self.sleep_log[date_str] = {...} on a
\* list raises TypeError
LogSleep ==
    /\ boot = "up"
    /\ t_pc = "menu"
    /\ cal_pc = "menu"
    /\ sum_op = "none"
    /\ g_op = "none"
    /\ IF IsMapping(sleep_log)
       THEN /\ sleep_log' = DictSet(sleep_log, "2025-01-02", SleepEntry)
            /\ sleep_file' = JsonDump(sleep_log')
            /\ UNCHANGED <<boot, raised>>
       ELSE Crash("TypeError") /\ UNCHANGED <<sleep_log, sleep_file>>
    /\ UNCHANGED <<results, results_file, storeVars>>
    /\ UNCHANGED <<graphVars, calVars, sumVars, testVars>>

\* get_active_baseline_seconds, called by a Reaction Time test:
\* self.terminal_calibration.get(key) on a list raises AttributeError
ActiveBaseline ==
    /\ boot = "up"
    /\ ~IsMapping(terminal_calibration)
    /\ Crash("AttributeError")
    /\ UNCHANGED <<sleep_log, sleep_file, results, results_file, storeVars>>
    /\ UNCHANGED <<graphVars, calVars, sumVars, testVars>>

LoadNext == Construct \/ RecordResult \/ LogSleep \/ ActiveBaseline

-----------------------------------------------------------------------------
(* A session at the main menu: tests, result views, calibration runs, the  *)
(* sleep log and the weekly graphs, one menu choice at a time.  The week   *)
(* shown starts at the day of timestamp 0; the graph state kept is that of *)
(* one of the six subplots.                                                *)

\* a score of the results store in the unit of the graphs (thousandths)
GraphUnits(name, score) ==
    IF name \in {"Digit Span", "Word Recall"} THEN score ELSE score \div 1000

\* daily_scores of weekly_trend_graphs for one test: the average of the
\* scores of a day, for Reaction Time of the adjusted ones, or None
DailyScores(name) ==
    IF name \notin DOMAIN results \/ results[name] = << >>
    THEN [i \in 1..WeekDays |-> << >>]
    ELSE [i \in 1..WeekDays |->
             LET OfDay(r) == r.timestamp = i - 1
                 day_results == SelectSeq(results[name], OfDay)
                 scores == SummaryScores(name, day_results)
             IN  IF day_results # << >>
                 THEN <<GraphUnits(name, Sum(scores) \div Len(scores))>>
                 ELSE << >>]

\* main menu choice 9: weekly_trend_graphs and _display_matplotlib_graphs
WeeklyTrendGraphs ==
    /\ t_pc = "menu"
    /\ cal_pc = "menu"
    /\ sum_op = "none"
    /\ g_op = "none"
    /\ g_req' = "week"
    /\ g_op' = "graphs"
    /\ \E name \in TestNames :
          /\ test_name' = name
          /\ daily_scores' = DailyScores(name)
          /\ DrawSubplot(name, DailyScores(name))
    /\ UNCHANGED <<storeVars, calVars, resultVars, sumVars, testVars, loadVars>>

\* the window of the graphs is closed: back to the main menu
GraphsClosed ==
    /\ g_req = "week"
    /\ g_op = "graphs"
    /\ g_req' = "none"
    /\ g_op' = "none"
    /\ test_name' = "Reaction Time"
    /\ data_values' = << >>
    /\ performance_bands' = << >>
    /\ y_range' = <<0, 0>>
    /\ active_bands' = << >>
    /\ daily_scores' = << >>
    /\ week_trend' = [graph |-> "unset", text |-> "unset"]
    /\ UNCHANGED <<storeVars, calVars, resultVars, sumVars, testVars, loadVars>>

\* the calibration stores a session starts with: the empty one, and the one
\* with an entry of the active terminal and one of another terminal
StoreForSession ==
    /\ env = Sig("Linux", "5.15", "3.11.4", "", "", "/bin/bash")
    /\ terminal_calibration \in {c \in TestStores : Cardinality(DOMAIN c) # 1}
    /\ calibration_file = FileOfStore(terminal_calibration)

\* the tests taken in a session
SessionTests == {"Reaction Time", "Digit Span"}

\* main menu choices 1 and 2
StartSessionTest ==
    /\ t_pc = "menu"
    /\ StartTestOf(SessionTests)

SessionNext ==
    \/ StartSessionTest
    \/ BeginTest
    \/ InterruptAtFirstPrompt
    \/ TestInterrupted
    \/ ReturnToMenu
    \/ ReactionTrial
    \/ DigitSpanAnswer
    \/ DisplayAllResults
    \/ DisplayResults
    \/ SummaryClosed
    \/ CalibrateTerminalLatency
    \/ BeginTrials
    \/ InterruptAtPrompt
    \/ TrialMeasured
    \/ TrialInterrupted
    \/ LogSleep
    \/ WeeklyTrendGraphs
    \/ GraphsClosed

-----------------------------------------------------------------------------
(* Specifications *)

\* the environment of the specifications that do not change it
StoreFixed ==
    /\ env = Sig("Linux", "5.15", "3.11.4", "", "", "/bin/bash")
    /\ terminal_calibration = << >>
    /\ calibration_file = NoFile

\* the graph helpers on every request
InitBands == GraphInit /\ StoreFixed /\ CalIdle /\ ResultsEmpty /\ SummaryIdle /\ TestIdle /\ Started
SpecBands == InitBands /\ [][GraphNext]_vars

\* the weekly graphs and their text summary on every week of daily scores
InitWeek == WeekInit /\ StoreFixed /\ CalIdle /\ ResultsEmpty /\ SummaryIdle /\ TestIdle /\ Started
SpecWeek == InitWeek /\ [][WeekNext]_vars

\* a session at the main menu
InitSession == GraphIdle /\ StoreForSession /\ CalIdle /\ ResultsForTests /\ SummaryIdle /\ TestIdle /\ Started
SpecSession == InitSession /\ [][SessionNext]_vars

\* calibration runs and restarts
InitCal == GraphIdle /\ StoreInit /\ CalIdle /\ ResultsEmpty /\ SummaryIdle /\ TestIdle /\ Started
SpecCal == InitCal /\ [][CalNext]_vars

\* the statistics of a calibration on every list of samples and every store
InitStats == GraphIdle /\ StoreForTests /\ StatsInit /\ ResultsEmpty /\ SummaryIdle /\ TestIdle /\ Started
SpecStats == InitStats /\ [][SaveCalibrationResults]_vars

\* the results summary on every history
InitTrend == GraphIdle /\ StoreFixed /\ CalIdle /\ SummaryInit /\ TestIdle /\ Started
SpecTrend == InitTrend /\ [][SummaryNext]_vars

\* the start of the program on every condition of the three files, and the
\* first operation on each store
InitLoad == GraphIdle /\ CalIdle /\ SummaryIdle /\ TestIdle /\ LoadInit
SpecLoad == InitLoad /\ [][LoadNext]_vars

\* test runs
InitTests == GraphIdle /\ StoreForTests /\ CalIdle /\ ResultsForTests /\ SummaryIdle /\ TestIdle /\ Started
SpecTests == InitTests /\ [][TestNext]_vars

-----------------------------------------------------------------------------
(* Properties of the band table and of the graph helpers *)

\* the per-kind display domains of the constants table, <<domain_min, domain_max>>
DocumentedDomain(name) ==
    CASE name = "Reaction Time"       -> <<200, 1000>>
      [] name = "Digit Span"          -> <<0, 16000>>
      [] name = "Mental Math"         -> <<2000, 20000>>
      [] name = "Word Recall"         -> <<0, 100000>>
      [] name = "Stroop Test"         -> <<1000, 5000>>
      [] name = "Sustained Attention" -> <<1000, 13000>>

RangeResolved == g_req = "range" /\ g_op # "none"

\* the bands of the stored table that touch the data range [lo, hi]
TouchedBands(lo, hi) ==
    {i \in DOMAIN performance_bands :
        lo < performance_bands[i][3] /\ hi >= performance_bands[i][2]}

\* C1: for every kind and every non-empty list of values, values outside the
\* documented domain included, the range (y_min, y_max) that adaptive_range
\* returns has y_min <= min(values) and y_max >= max(values).
C1_RangeCoversData ==
    (RangeResolved /\ data_values # << >>) =>
        /\ y_range[1] <= SetMin(Range(data_values))
        /\ y_range[2] >= SetMax(Range(data_values))

\* C7: for each of the six kinds the bands poor, average, good, excellent are
\* contiguous, non-overlapping, of the equal width (domain_max - domain_min)/4,
\* and span exactly the kind's documented domain.
C7_BandsPartitionDomain ==
    g_op # "none" =>
        LET b == performance_bands
            d == DocumentedDomain(test_name)
        IN  /\ Len(b) = 4
            /\ <<b[1][1], b[2][1], b[3][1], b[4][1]>>
                   = <<"poor", "average", "good", "excellent">>
            /\ b[1][2] = d[1]
            /\ b[4][3] = d[2]
            /\ \A i \in 1..3 : b[i][3] = b[i + 1][2]
            /\ \A i \in 1..4 : 4 * (b[i][3] - b[i][2]) = d[2] - d[1]
            /\ \A i \in 1..4 : \A j \in 1..4 : i < j => b[i][3] <= b[j][2]

C7_Witness ==
    /\ g_op # "none"
    /\ test_name = "Mental Math"
    /\ performance_bands[2] = <<"average", 6500, 11000>>

\* C8: when at least one band touches the data range (min(values) < b_max and
\* max(values) >= b_min), adaptive_range returns the smallest lower bound and the
\* largest upper bound of the touched bands, and the range is a union of whole
\* bands: every band lies inside it or outside it, and those inside fill it.
C8_RangeIsTouchedBandUnion ==
    (RangeResolved /\ data_values # << >>) =>
        LET lo == SetMin(Range(data_values))
            hi == SetMax(Range(data_values))
            b == performance_bands
            touched == TouchedBands(lo, hi)
            inside == {i \in DOMAIN b : y_range[1] <= b[i][2] /\ b[i][3] <= y_range[2]}
        IN  touched # {} =>
              /\ y_range[1] = SetMin({b[i][2] : i \in touched})
              /\ y_range[2] = SetMax({b[i][3] : i \in touched})
              /\ \A i \in DOMAIN b :
                    i \in inside \/ b[i][3] <= y_range[1] \/ b[i][2] >= y_range[2]
              /\ inside = touched
              /\ inside = SetMin(inside)..SetMax(inside)

C8_Witness ==
    /\ RangeResolved
    /\ test_name = "Mental Math"
    /\ data_values = <<8750, 11000>>
    /\ y_range = <<6500, 15500>>

\* C9: adaptive_range(kind, []) is exactly (domain_min, domain_max) of the kind:
\* the lower bound of its 'poor' band and the upper bound of its 'excellent' band.
C9_EmptyGivesFullDomain ==
    (RangeResolved /\ data_values = << >>) =>
        /\ y_range = DocumentedDomain(test_name)
        /\ y_range = <<performance_bands[1][2], performance_bands[4][3]>>
        /\ performance_bands[1][1] = "poor"
        /\ performance_bands[4][1] = "excellent"

C9_Witness ==
    /\ RangeResolved
    /\ data_values = << >>
    /\ test_name = "Sustained Attention"
    /\ y_range = <<1000, 13000>>

C10_EmptyReached == g_op = "active_bands" /\ active_bands = << >>


-----------------------------------------------------------------------------
(* Properties of the calibration store *)

CalRunEnded == cal_pc = "menu" /\ cal_end \in {"completed", "failed", "interrupted"}

\* C2: a calibration run the user interrupts, also after trials that produced
\* samples, writes no entry: the calibration store, in memory and in the file,
\* is what it was before the run.
C2_InterruptedRunWritesNothing ==
    (cal_pc = "menu" /\ cal_end = "interrupted") =>
        /\ terminal_calibration = cal_at_start
        /\ calibration_file = file_at_start

\* C5: a calibration run that collects no sample writes nothing -- the entry of
\* the current fingerprint and every other entry stay as they were -- and a run
\* whose trial loop was entered reports "No samples recorded.".
C5_NoSamplesNoWrite ==
    (cal_pc = "menu" /\ cal_end # "none" /\ samples = << >>) =>
        /\ terminal_calibration = cal_at_start
        /\ calibration_file = file_at_start
        /\ CalRunEnded => msg = "No samples recorded."

\* every trial of a second run failed, and the store holds the first run's entry
C5_Witness ==
    /\ cal_pc = "menu"
    /\ cal_end = "failed"
    /\ samples = << >>
    /\ errors = 3
    /\ msg = "No samples recorded."
    /\ _terminal_signature_key(env) \in DOMAIN terminal_calibration

\* C6: the calibration key is a deterministic and injective function of the
\* environment attributes: an entry is found under the key of the current
\* environment exactly when it was written in an environment with the same OS
\* name, OS version, shell, terminal program and version, and runtime version.
C6_KeyIdentifiesEnvironment ==
    \A k \in DOMAIN terminal_calibration :
        (k = _terminal_signature_key(env)) <=> (terminal_calibration[k].env = env)

-----------------------------------------------------------------------------
(* Properties of the results summary *)

\* the tests whose score is a time, for which a smaller score is the better one
LowerIsBetter(name) ==
    name \in {"Reaction Time", "Mental Math", "Stroop Test", "Sustained Attention"}

\* C4: with at least six scores of a test, the trend verdict of the summary is
\* "improving" when the mean of the last three is better than the mean of the
\* first three in the direction of the test (smaller for the timed tests,
\* larger for the others), "declining" when it is worse, and "stable" exactly
\* when the two means are equal.
C4_TrendVerdictFollowsDirection ==
    sum_op = "shown" =>
        \A name \in DOMAIN summary :
            LET scores == SummaryScores(name, results[name])
                n == Len(scores)
                first3 == scores[1] + scores[2] + scores[3]
                last3 == scores[n - 2] + scores[n - 1] + scores[n]
            IN  n >= 6 =>
                    summary[name].trend =
                        IF last3 = first3 THEN "stable"
                        ELSE IF LowerIsBetter(name) <=> last3 < first3 THEN "improving"
                        ELSE "declining"

\* the verdict of the summary agrees with the direction for the two tests
\* whose larger score is the better one, as long as the two means differ
TrendRightWhenHigherIsBetter ==
    sum_op = "shown" =>
        \A name \in DOMAIN summary \ {"Reaction Time", "Mental Math",
                                      "Stroop Test", "Sustained Attention"} :
            LET scores == SummaryScores(name, results[name])
                n == Len(scores)
                first3 == scores[1] + scores[2] + scores[3]
                last3 == scores[n - 2] + scores[n - 1] + scores[n]
            IN  (n >= 6 /\ last3 # first3) =>
                    summary[name].trend =
                        IF last3 > first3 THEN "improving" ELSE "declining"

\* the summary of the Mental Math scores falling from 15 s to 7 s
FallingMentalMathShown ==
    /\ sum_op = "shown"
    /\ results = History("Mental Math", FallingScores)

-----------------------------------------------------------------------------
(* Properties of the test runs *)

\* C3: for each of the six tests, a Ctrl+C after the test has started and
\* before it has completed, with no or with several trials answered, gives no
\* new result: the results store and its file are as they were when the run
\* started.
C3_InterruptedTestWritesNothing ==
    t_interrupts > 0 => (results = results_at_start /\ results_file = resfile_at_start)

\* a run that reached the handler of KeyboardInterrupt of its test, or was
\* interrupted at its first prompt, recorded nothing
CancelledTestWritesNothing ==
    t_end = "interrupted" => (results = results_at_start /\ results_file = resfile_at_start)

\* the five tests other than the Stroop test record nothing once interrupted
InterruptedOtherTestWritesNothing ==
    (t_interrupts > 0 /\ t_test # "Stroop Test") =>
        (results = results_at_start /\ results_file = resfile_at_start)

\* a test was cancelled after several of its trials were answered
CancelledAfterTrials ==
    /\ t_pc = "cancelled"
    /\ t_test = "Mental Math"
    /\ locals.total >= 2

-----------------------------------------------------------------------------
(* Properties of the adjusted Reaction Time score *)

\* raw less baseline, zero when the baseline is the larger one
RawLessBaseline(raw, baseline) == IF raw > baseline THEN raw - baseline ELSE 0

\* the baseline of the active terminal, read from the store
StoredBaseline ==
    LET key == _terminal_signature_key(env)
    IN  IF key \in DOMAIN terminal_calibration THEN terminal_calibration[key].median_ms ELSE 0

\* C11: the adjusted Reaction Time score is max(0, raw - baseline), never
\* negative, where it is produced: at the end of a test, whose result caches it
\* to the millisecond, and in the two result displays, which compute it from
\* the raw score of a result that has no cached value.
C11_AdjustedIsRawLessBaselineNotNegative ==
    /\ "Reaction Time" \in DOMAIN results =>
          \A i \in 1..Len(results["Reaction Time"]) :
              LET r == results["Reaction Time"][i]
              IN  "adjusted_average_s" \in DOMAIN r.details =>
                      /\ r.details.adjusted_average_s >= 0
                      /\ r.details.adjusted_average_s =
                             Round3(RawLessBaseline(r.score, StoredBaseline))
    /\ (sum_op # "none" /\ "Reaction Time" \in DOMAIN summary) =>
          LET rs == results["Reaction Time"]
              expected == [i \in 1..Len(rs) |->
                              IF "adjusted_average_s" \in DOMAIN rs[i].details
                              THEN rs[i].details.adjusted_average_s
                              ELSE RawLessBaseline(rs[i].score, StoredBaseline)]
              shown == summary["Reaction Time"]
          IN  /\ \A i \in 1..Len(rs) : expected[i] >= 0
              /\ sum_op = "shown" => shown.scores = expected
              /\ sum_op = "history" =>
                    /\ shown.listed = LastN(expected, HistoryShown)
                    /\ Len(rs) > 1 => shown.scores = expected

\* the history shows two Reaction Time results below the baseline of 450 ms:
\* one without a cached value, one a test has just recorded; both adjust to 0
C11_Witness ==
    /\ sum_op = "history"
    /\ "Reaction Time" \in DOMAIN summary
    /\ StoredBaseline = 450000
    /\ Len(results["Reaction Time"]) = 2
    /\ results["Reaction Time"][1].details = << >>
    /\ results["Reaction Time"][2].score = 310000
    /\ results["Reaction Time"][2].details.adjusted_average_s = 0
    /\ summary["Reaction Time"].scores = <<0, 0>>
    /\ summary["Reaction Time"].listed = <<0, 0>>

-----------------------------------------------------------------------------
(* Properties of the calibration statistics *)

\* how often v is in the list s
Occurrences(s, v) == Cardinality({i \in DOMAIN s : s[i] = v})

\* the ascending list with the elements of s
Ascending(s) ==
    CHOOSE t \in [1..Len(s) -> Range(s)] :
        /\ \A i \in 1..(Len(s) - 1) : t[i] <= t[i + 1]
        /\ \A v \in Range(s) : Occurrences(t, v) = Occurrences(s, v)

\* the entry of the active terminal after a save of a non-empty list
SavedEntry == terminal_calibration[_terminal_signature_key(env)]

StatsSaved == cal_pc = "menu" /\ cal_end = "completed" /\ samples # << >>

\* round(0.10 * (n - 1)) and round(0.90 * (n - 1)), a tie going to the even index
Index10(n) == RoundHalfEven(n - 1, 10)
Index90(n) == RoundHalfEven(9 * (n - 1), 10)

\* C12, as stated: the stored p10 and p90 are the elements of the ascending
\* samples at the indexes round(0.10 * (n - 1)) and round(0.90 * (n - 1)), which
\* lie in [0, n - 1]; the samples 10, 20, 30, 40, 50 ms give p10 = 10, p90 = 50
\* and median = 30.
C12_PercentilesAreSampleElements ==
    StatsSaved =>
        LET n == Len(samples)
            sorted == Ascending(samples)
        IN  /\ Index10(n) \in 0..(n - 1)
            /\ Index90(n) \in 0..(n - 1)
            /\ SavedEntry.p10_ms = sorted[Index10(n) + 1]
            /\ SavedEntry.p90_ms = sorted[Index90(n) + 1]
            /\ samples = FiveSamples =>
                  /\ SavedEntry.p10_ms = 10000
                  /\ SavedEntry.p90_ms = 50000
                  /\ SavedEntry.median_ms = 30000

\* C12, amended: the stored p10 and p90 are those elements rounded to a tenth of
\* a millisecond, with no interpolation between elements; the rest as stated.
C12_PercentilesAreRoundedSampleElements ==
    StatsSaved =>
        LET n == Len(samples)
            sorted == Ascending(samples)
        IN  /\ Index10(n) \in 0..(n - 1)
            /\ Index90(n) \in 0..(n - 1)
            /\ SavedEntry.p10_ms = 100 * RoundHalfEven(sorted[Index10(n) + 1], 100)
            /\ SavedEntry.p90_ms = 100 * RoundHalfEven(sorted[Index90(n) + 1], 100)
            /\ SavedEntry.samples = n
            /\ samples = FiveSamples =>
                  /\ SavedEntry.p10_ms = 10000
                  /\ SavedEntry.p90_ms = 50000
                  /\ SavedEntry.median_ms = 30000

\* six samples, where both indexes are ties (0.5 and 4.5): p10 is the first
\* element, p90 the fifth, 150.04 ms, stored as 150.0 ms
C12_Witness ==
    /\ StatsSaved
    /\ samples = <<150040, 10000, 30000, 10000, 30000, 150040>>
    /\ SavedEntry.p10_ms = 10000
    /\ SavedEntry.p90_ms = 150000

-----------------------------------------------------------------------------
(* Properties of the calibration runs *)

\* C13: in an automated calibration a trial that fails adds no sample, the run
\* goes on after one failure and after two failures in a row, and it is
\* stopped early exactly when three trials in a row have failed.
C13_AbortExactlyAfterThreeFailuresInARow ==
    /\ cal_pc = "loop" => (Len(samples) + errors = cal_i - 1 /\ streak < 3)
    /\ (cal_pc = "menu" /\ cal_end = "failed") => streak = 3

\* statistics.median of a list: the middle element of the ascending list, or
\* the mean of the two middle ones
MedianOf(s) ==
    LET sorted == Ascending(s)
        n == Len(s)
    IN  IF n % 2 = 1 THEN sorted[(n + 1) \div 2]
        ELSE (sorted[n \div 2] + sorted[n \div 2 + 1]) \div 2

\* C14: after a calibration run that collected n >= 1 samples, the entry of
\* the current fingerprint has the median, p10, p90 and count of these n
\* samples alone, whatever entry the fingerprint had before, and the entries of
\* all other fingerprints are what they were; the file holds the same store.
C14_EntryReplacedOthersKept ==
    StatsSaved =>
        LET key == _terminal_signature_key(env)
            n == Len(samples)
            sorted == Ascending(samples)
        IN  /\ DOMAIN terminal_calibration = DOMAIN cal_at_start \cup {key}
            /\ SavedEntry.samples = n
            /\ SavedEntry.median_ms = 100 * RoundHalfEven(MedianOf(samples), 100)
            /\ SavedEntry.p10_ms = 100 * RoundHalfEven(sorted[Index10(n) + 1], 100)
            /\ SavedEntry.p90_ms = 100 * RoundHalfEven(sorted[Index90(n) + 1], 100)
            /\ SavedEntry.method = "Manual timing"
            /\ SavedEntry.env = env
            /\ \A k \in DOMAIN terminal_calibration \ {key} :
                  terminal_calibration[k] = cal_at_start[k]
            /\ calibration_file = JsonDump(terminal_calibration)

\* an entry of 175.1 ms from two samples is replaced by the entry of three
\* samples of 10 ms, next to the untouched entry of another terminal
C14_Witness ==
    /\ StatsSaved
    /\ samples = <<10000, 10000, 10000>>
    /\ _terminal_signature_key(env) \in DOMAIN cal_at_start
    /\ cal_at_start[_terminal_signature_key(env)].median_ms = 175100
    /\ SavedEntry.median_ms = 10000
    /\ SavedEntry.samples = 3
    /\ Cardinality(DOMAIN terminal_calibration) = 2

\* C17: when the automated calibration method gives up, at its probe or in the
\* trial loop, on macOS as on Windows, the run goes on with the manual method:
\* no run is back at the menu with the automated method given up.
C17_AutomationFailureFallsBackToManual ==
    (cal_pc = "menu" /\ cal_end = "failed") => cal_method = "Manual"

-----------------------------------------------------------------------------
(* Properties of the active baseline *)

\* the Reaction Time results recorded so far
ReactionResults ==
    IF "Reaction Time" \in DOMAIN results THEN results["Reaction Time"] ELSE << >>

\* C15: get_active_baseline_seconds is median_ms / 1000 of the entry stored
\* under the key of the current terminal, and 0.0 without such an entry, whatever
\* is stored under other keys; it is read into the result of a Reaction Time
\* test, and no step of a test or a display changes the store or its file.
C15_BaselineIsMedianOfActiveEntry ==
    /\ []( /\ get_active_baseline_seconds = StoredBaseline
           /\ \A i \in 1..Len(ReactionResults) :
                 LET d == ReactionResults[i].details
                 IN  "baseline_ms" \in DOMAIN d => d.baseline_ms = StoredBaseline )
    /\ [][terminal_calibration' = terminal_calibration
            /\ calibration_file' = calibration_file]_vars

\* a Reaction Time test has recorded the baseline 175.1 ms of the active
\* terminal while the store also holds the entry of another terminal
C15_Witness ==
    /\ Cardinality(DOMAIN terminal_calibration) = 2
    /\ Len(ReactionResults) = 1
    /\ "baseline_ms" \in DOMAIN ReactionResults[1].details
    /\ ReactionResults[1].details.baseline_ms = 175100
    /\ get_active_baseline_seconds = 175100

\* the baseline is 0.0 while the store holds only the entry of another terminal
C15_WitnessOtherOnly ==
    /\ terminal_calibration # << >>
    /\ _terminal_signature_key(env) \notin DOMAIN terminal_calibration
    /\ Len(ReactionResults) = 1
    /\ "baseline_ms" \in DOMAIN ReactionResults[1].details
    /\ ReactionResults[1].details.baseline_ms = 0

-----------------------------------------------------------------------------
(* Properties of the fallback of the range resolver *)

\* no band of the test touches the range of the plotted values
NoBandTouches ==
    LET b == get_performance_bands(test_name)
        lo == ListMin(data_values)
        hi == ListMax(data_values)
    IN  \A i \in DOMAIN b : ~(lo < b[i][3] /\ hi >= b[i][2])

\* the range resolver has been called on a non-empty list no band touches
FallbackTaken ==
    g_req = "range" /\ g_op # "none" /\ data_values # << >> /\ NoBandTouches

\* C16: when no band touches the range of a non-empty list of values, the
\* resolver returns (lo - pad, hi + pad) with lo the least and hi the largest
\* value, pad a tenth of hi - lo when they differ, and pad = 1 when they are equal.
C16_FallbackPadsTheDataRange ==
    FallbackTaken =>
        LET lo == ListMin(data_values)
            hi == ListMax(data_values)
        IN  IF lo = hi
            THEN y_range = <<lo - 1000, hi + 1000>>
            ELSE /\ 10 * (lo - y_range[1]) = hi - lo
                 /\ 10 * (y_range[2] - hi) = hi - lo

\* two different values below the lowest band: the fallback with a tenth
C16_Witness ==
    /\ FallbackTaken
    /\ ListMin(data_values) # ListMax(data_values)
    /\ y_range[1] < ListMin(data_values)
    /\ y_range[2] > ListMax(data_values)

\* one value at the upper end of the highest band: the fallback with pad 1
C16_WitnessSinglePoint ==
    /\ FallbackTaken
    /\ test_name = "Word Recall"
    /\ data_values = <<100000>>
    /\ y_range = <<99000, 101000>>

-----------------------------------------------------------------------------
(* Properties of malformed input *)

\* a line that is no number has just been read by a running test
InvalidLineRead ==
    /\ t_pc = "running"
    /\ t_test \in {"Mental Math", "Sustained Attention"}
    /\ locals' # locals
    /\ "user_input" \in DOMAIN locals'
    /\ locals'.user_input = "invalid"

\* C18: a line that is no number is reported and the same question is asked
\* again: the line is not scored as an answer (the numbers of attempted and of
\* correct answers stay, no result is recorded for it), and the Sustained
\* Attention test stays at the same position of the sequence.
C18_MalformedInputAsksAgain ==
    [][InvalidLineRead =>
          /\ locals'.total = locals.total
          /\ locals'.correct = locals.correct
          /\ t_test = "Sustained Attention" =>
                (t_pc' = "running" /\ locals'.position = locals.position)]_vars

\* the same for the Sustained Attention test alone, whose except ValueError
\* only prints "Invalid input. Enter a number or 'done': "
SustainedInvalidLineAsksAgain ==
    [][(InvalidLineRead /\ t_test = "Sustained Attention") =>
          /\ locals'.total = locals.total
          /\ locals'.correct = locals.correct
          /\ locals'.position = locals.position
          /\ t_pc' = "running"
          /\ results' = results]_vars

\* C18: at the menu of the Windows calibration a choice that is none of 1, 2, 3
\* is reported and the menu is shown again
InvalidMenuChoiceAsksAgain ==
    msg = "Invalid choice." => cal_pc = "win_menu"

-----------------------------------------------------------------------------
(* Properties of the timed response window of the Stroop test *)

\* the trial before timed out and a line typed after that waits in stdin
LateLineWaits ==
    /\ t_pc = "running"
    /\ t_test = "Stroop Test"
    /\ locals.total > 0
    /\ locals.times[locals.total] = TimedOut
    /\ locals.pending # "none"

\* a trial ends with the waiting line as its response
WaitingLineConsumed ==
    /\ "total" \in DOMAIN locals'
    /\ locals'.total = locals.total + 1
    /\ locals'.pending = "none"

\* C19: when the timeout of a Stroop trial wins, the late input of that trial
\* is not observed afterwards: no later trial takes it as its response.
C19_LateInputNeverObserved ==
    [][LateLineWaits => ~WaitingLineConsumed]_vars

\* in every trial either the timeout or a line is observed, never both:
\* the trials counted as timeouts are those without a response within 3 s
TimeoutOrInputPerTrial ==
    (t_test = "Stroop Test" /\ t_pc \in {"running", "fallback", "shown"}) =>
        /\ locals.timeouts = Cardinality({i \in 1..locals.total : locals.times[i] = TimedOut})
        /\ Len(locals.times) = locals.total

-----------------------------------------------------------------------------
(* Properties of the loaders *)

\* the file is missing or does not hold a JSON object
MissingOrMalformed(file) == file.kind # "object"

\* C20: loading a store whose file is missing or holds malformed content yields
\* an empty mapping and never raises: the program starts, every store whose
\* file is missing or malformed is empty, and no later operation on a store raises.
C20_MissingOrMalformedLoadsEmpty ==
    /\ raised = "none"
    /\ boot = "up" =>
          /\ MissingOrMalformed(results_file) => results = << >>
          /\ MissingOrMalformed(sleep_file) => sleep_log = << >>
          /\ MissingOrMalformed(calibration_file) => terminal_calibration = << >>

\* with every file missing, holding text that is no JSON, or holding an object,
\* the program starts, a store without an object is empty, and nothing raises
MissingOrBadJsonLoadsEmpty ==
    LET Tolerated(file) == file.kind \in {"missing", "bad_json", "object"}
        Empty(file, store) == file.kind \in {"missing", "bad_json"} => store = << >>
    IN  (Tolerated(results_file) /\ Tolerated(sleep_file) /\ Tolerated(calibration_file)) =>
            /\ raised = "none"
            /\ boot = "up" =>
                  /\ Empty(results_file, results)
                  /\ Empty(sleep_file, sleep_log)
                  /\ Empty(calibration_file, terminal_calibration)

-----------------------------------------------------------------------------
(* Properties of the results views *)

\* a results view is open on a test with exactly one recorded result
SingleResultShown(name) ==
    /\ sum_op # "none"
    /\ name \in DOMAIN summary
    /\ Len(results[name]) = 1

\* C21: a results view of a test with exactly one result reports this result
\* as the average and as the latest value, and shows neither a best value nor
\* a trend.
C21_SingleResultIsAverageAndLatest ==
    \A name \in TestNames :
        SingleResultShown(name) =>
            LET shown == summary[name]
                score == SummaryScore(name, results[name][1])
            IN  /\ DOMAIN shown.stats = {"average", "latest"}
                /\ shown.stats["average"] = score
                /\ shown.stats["latest"] = score
                /\ sum_op = "shown" => shown.trend = "none"

\* the same for the summary of all results alone
SingleResultInSummaryOfAll ==
    \A name \in TestNames :
        (SingleResultShown(name) /\ sum_op = "shown") =>
            LET shown == summary[name]
                score == SummaryScore(name, results[name][1])
            IN  /\ DOMAIN shown.stats = {"average", "latest"}
                /\ shown.stats["average"] = score
                /\ shown.stats["latest"] = score
                /\ shown.trend = "none"

\* with fewer than two results no view shows a best value or a trend
NoBestNoTrendBelowTwo ==
    \A name \in TestNames :
        SingleResultShown(name) =>
            /\ "best" \notin DOMAIN summary[name].stats
            /\ sum_op = "shown" => summary[name].trend = "none"

-----------------------------------------------------------------------------
(* Properties of the Word Recall score *)

\* the Word Recall results recorded so far
WordRecallResults ==
    IF "Word Recall" \in DOMAIN results THEN results["Word Recall"] ELSE << >>

\* C27: the score a completed Word Recall test records is between 0 and 100
\* percent, whatever words were typed, a word typed more than once included.
C27_WordRecallScoreWithinDomain ==
    \A i \in 1..Len(WordRecallResults) :
        /\ WordRecallResults[i].score >= 0
        /\ WordRecallResults[i].score <= 100000

\* the score is within 0 and 100 percent when no more words are typed than
\* were shown
WordRecallScoreWithinDomainUpToTwelve ==
    \A i \in 1..Len(WordRecallResults) :
        WordRecallResults[i].details.words_recalled <= Cardinality(TestWords) =>
            /\ WordRecallResults[i].score >= 0
            /\ WordRecallResults[i].score <= 100000

-----------------------------------------------------------------------------
(* Properties of the path the range resolver takes *)

\* the documented domain of a test: from the lower end of its first band to
\* the upper end of its last band
DomainMin(name) == get_performance_bands(name)[1][2]
DomainMax(name) == get_performance_bands(name)[Len(get_performance_bands(name))][3]

\* the range resolver has been called on a non-empty list
ResolvedOnData == g_req = "range" /\ g_op # "none" /\ data_values # << >>

\* both ends of the range are band boundaries
BandAligned ==
    LET b == get_performance_bands(test_name)
    IN  /\ \E i \in DOMAIN b : y_range[1] = b[i][2]
        /\ \E i \in DOMAIN b : y_range[2] = b[i][3]

\* the range is the data range with its padding
PaddedDataRange ==
    LET lo == ListMin(data_values)
        hi == ListMax(data_values)
    IN  IF lo = hi THEN y_range = <<lo - 1000, hi + 1000>>
        ELSE /\ 10 * (lo - y_range[1]) = hi - lo
             /\ 10 * (y_range[2] - hi) = hi - lo

\* C28: the resolver takes the padded fallback exactly when the least value is
\* at or above the upper end of the domain or the largest value is below its
\* lower end; with at least one value inside the domain the range is aligned
\* to band boundaries.
C28_FallbackExactlyOutsideDomain ==
    ResolvedOnData =>
        LET lo == ListMin(data_values)
            hi == ListMax(data_values)
            outside == lo >= DomainMax(test_name) \/ hi < DomainMin(test_name)
        IN  /\ outside => (PaddedDataRange /\ ~BandAligned)
            /\ ~outside => (BandAligned /\ ~PaddedDataRange)
            /\ (\E i \in DOMAIN data_values :
                   /\ data_values[i] >= DomainMin(test_name)
                   /\ data_values[i] < DomainMax(test_name)) => BandAligned

\* two different Word Recall values at and above 100 percent take the fallback
C28_Witness ==
    /\ ResolvedOnData
    /\ test_name = "Word Recall"
    /\ data_values = <<100000, 112500>>
    /\ y_range = <<98750, 113750>>

\* a value below the domain together with a value inside it: band-aligned
C28_WitnessAligned ==
    /\ ResolvedOnData
    /\ ListMin(data_values) < DomainMin(test_name)
    /\ ListMax(data_values) >= DomainMin(test_name)
    /\ ListMax(data_values) < DomainMax(test_name)
    /\ BandAligned

-----------------------------------------------------------------------------
(* Properties of the active bands of the adaptive range *)

\* the bands of the table of the test that touch the range of the plotted values
TouchedOfTable ==
    LET b == get_performance_bands(test_name)
        lo == ListMin(data_values)
        hi == ListMax(data_values)
        Touches(band) == lo < band[3] /\ hi >= band[2]
    IN  SelectSeq(b, Touches)

\* the active bands were computed on the range resolved for a non-empty list
\* that a band touches
ActiveOnTouchedRange ==
    /\ g_req = "range"
    /\ g_op = "active_bands"
    /\ data_values # << >>
    /\ TouchedOfTable # << >>

\* C29: for a non-empty list that at least one band touches, the active bands
\* of the adaptive range are exactly the touched bands, each with its whole
\* interval, in the order of the table, and their intervals tile the range.
C29_ActiveBandsAreTouchedBandsUnclipped ==
    ActiveOnTouchedRange =>
        /\ active_bands = TouchedOfTable
        /\ active_bands[1][2] = y_range[1]
        /\ active_bands[Len(active_bands)][3] = y_range[2]
        /\ \A i \in 1..(Len(active_bands) - 1) :
              active_bands[i][3] = active_bands[i + 1][2]

\* values in the second and the third band: these two bands, unclipped
C29_Witness ==
    /\ ActiveOnTouchedRange
    /\ Len(active_bands) = 2
    /\ active_bands[1][1] = "average"
    /\ active_bands[2][1] = "good"
    /\ ListMin(data_values) > active_bands[1][2]
    /\ ListMax(data_values) < active_bands[2][3]

-----------------------------------------------------------------------------
(* Properties of the stored calibration entries *)

EntryCountWithinTrialCount ==
    \A k \in DOMAIN terminal_calibration :
        /\ terminal_calibration[k].samples >= 1
        /\ terminal_calibration[k].samples <= TrialCount
        /\ terminal_calibration[k].p10_ms <= terminal_calibration[k].median_ms
        /\ terminal_calibration[k].median_ms <= terminal_calibration[k].p90_ms

-----------------------------------------------------------------------------
(* The weekly graphs *)

\* the graph of the week was drawn
GraphDrawn == g_req = "week" /\ week_trend.graph # "unset"

\* the text summary of the week was printed
TextPrinted == g_req = "week" /\ week_trend.text # "unset"

\* C - s for the four time-based tests, s for the two others
InvertedOrKept(name, s) ==
    IF name = "Reaction Time" THEN 1000 - s
    ELSE IF name = "Mental Math" THEN 22000 - s
    ELSE IF name = "Stroop Test" THEN 5000 - s
    ELSE IF name = "Sustained Attention" THEN 13000 - s
    ELSE s

\* C25: every daily score s of a drawn week is plotted as C - s with C = 1.0
\* (Reaction Time), 22.0 (Mental Math), 5.0 (Stroop Test), 13.0 (Sustained
\* Attention) and as s for Digit Span and Word Recall, in the order of the
\* days; the y range is the adaptive range of these plotted values and the
\* active bands are those of that range.
C25_PlottedAsInvertedScores ==
    GraphDrawn =>
        LET valid == ValidScores(daily_scores)
        IN  /\ Len(data_values) = Len(valid)
            /\ \A i \in DOMAIN valid :
                   data_values[i] = InvertedOrKept(test_name, valid[i])
            /\ y_range = _get_adaptive_y_range(test_name, data_values)
            /\ active_bands =
                   _get_active_performance_bands(test_name, y_range[1], y_range[2])

\* C25 witness: Reaction Time 0.25 s on Monday and 0.45 s on Wednesday are
\* plotted as 0.75 and 0.55; the range is 0.4..0.8 (average and good), not the
\* 0.2..0.6 of the raw scores.
C25_Witness ==
    /\ GraphDrawn
    /\ test_name = "Reaction Time"
    /\ daily_scores = << <<250>>, << >>, <<450>>, << >>, << >> >>
    /\ data_values = <<750, 550>>
    /\ y_range = <<400, 800>>
    /\ active_bands = << <<"average", 400, 600>>, <<"good", 600, 800>> >>
    /\ _get_adaptive_y_range(test_name, ValidScores(daily_scores)) = <<200, 600>>

\* a week of Word Recall is plotted as it is
C25_WitnessKept ==
    /\ GraphDrawn
    /\ test_name = "Word Recall"
    /\ daily_scores = << << >>, <<50000>>, << >>, << >>, <<100000>> >>
    /\ data_values = <<50000, 100000>>
    /\ y_range = <<50000, 100000>>

\* a week without results is drawn on the fixed range with all four bands
NoDataWeekOnFixedRange ==
    (GraphDrawn /\ ValidScores(daily_scores) = << >>) =>
        /\ data_values = << >>
        /\ y_range = FixedRange(test_name)
        /\ Len(active_bands) = 4
        /\ week_trend.graph = "none"

\* C26: for a week with at least two days of data, the text summary reports
\* the same trend verdict as the graph, for every test.
C26_TextTrendEqualsGraphTrend ==
    (GraphDrawn /\ TextPrinted /\ Len(ValidScores(daily_scores)) >= 2) =>
        week_trend.text = week_trend.graph

\* the two views agree on the tests whose plotted values are the raw scores
TextTrendEqualsGraphTrendWhenKept ==
    (GraphDrawn /\ TextPrinted /\ test_name \in {"Digit Span", "Word Recall"}) =>
        week_trend.text = week_trend.graph

\* the opposite verdict
Opposite(verdict) ==
    IF verdict = "Improving" THEN "Declining"
    ELSE IF verdict = "Declining" THEN "Improving"
    ELSE verdict

\* on the four time-based tests the text summary reports the opposite of
\* the graph
TextTrendOppositeWhenInverted ==
    (GraphDrawn /\ TextPrinted
        /\ test_name \in {"Reaction Time", "Mental Math", "Stroop Test",
                          "Sustained Attention"}) =>
        week_trend.text = Opposite(week_trend.graph)

\* Reaction Time falling from 0.45 s to 0.25 s in a week: the graph says
\* Improving, the text summary Declining
ReactionWeekVerdictsDiffer ==
    /\ GraphDrawn
    /\ TextPrinted
    /\ test_name = "Reaction Time"
    /\ daily_scores = << <<450>>, << >>, << >>, << >>, <<250>> >>
    /\ week_trend = [graph |-> "Improving", text |-> "Declining"]

\* below two days of data neither view reports a trend
NoWeekTrendBelowTwoDays ==
    (GraphDrawn /\ TextPrinted /\ Len(ValidScores(daily_scores)) < 2) =>
        week_trend = [graph |-> "none", text |-> "none"]

-----------------------------------------------------------------------------
(* A session: what the operations leave alone *)

\* the list of results of a test, empty when the test has none
ResultsOf(store, name) == IF name \in DOMAIN store THEN store[name] ELSE << >>

\* this step is the end of a test that appends one result to the list of the
\* test and keeps every result that was there, of this and of every other test
AppendsOneResult ==
    /\ t_pc = "running"
    /\ t_pc' = "shown"
    /\ DOMAIN results' = DOMAIN results \cup {t_test}
    /\ LET old == ResultsOf(results, t_test)
       IN  /\ Len(results'[t_test]) = Len(old) + 1
           /\ \A i \in DOMAIN old : results'[t_test][i] = old[i]
    /\ \A other \in DOMAIN results \ {t_test} : results'[other] = results[other]

\* C22: the results store is append-only.  A step that records a result
\* appends exactly one entry to the list of its test and leaves every entry
\* recorded before, of every test, as it was and where it was; every other
\* step (result views, graphs, calibration, sleep log) leaves the store as it is.
C22_ResultsAppendOnly ==
    [][results' = results \/ AppendsOneResult]_vars

\* C22 witness: a Reaction Time result was appended behind the one of the
\* results file, a calibration run has saved an entry, a night was logged
\* and the summary is shown
C22_Witness ==
    /\ "Reaction Time" \in DOMAIN results
    /\ Len(results["Reaction Time"]) = 2
    /\ results["Reaction Time"][1] = [timestamp |-> 0, score |-> 300000, details |-> << >>]
    /\ results["Reaction Time"][2].timestamp = 1
    /\ cal_end = "completed"
    /\ sleep_log # << >>
    /\ sum_op = "shown"

\* a Digit Span result leaves the Reaction Time result of the file alone
OtherTestsResultsKept ==
    ("Digit Span" \in DOMAIN results /\ "Reaction Time" \in DOMAIN results_at_start)
        => /\ "Reaction Time" \in DOMAIN results
           /\ results["Reaction Time"] = results_at_start["Reaction Time"]

\* the results file holds the store whenever it was written
ResultsFileFollowsStore ==
    results # << >> => results_file = JsonDump(results)

\* this step ends a calibration run that has collected samples, and writes
\* no entry but the one of the active terminal
SavesCollectedSamples ==
    /\ cal_pc = "loop"
    /\ cal_pc' = "menu"
    /\ samples' # << >>
    /\ \A k \in DOMAIN terminal_calibration \ {_terminal_signature_key(env)} :
           k \in DOMAIN terminal_calibration'
               /\ terminal_calibration'[k] = terminal_calibration[k]

\* C23: the calibration store and its file are written only by the end of a
\* calibration run that has collected at least one sample; every step of a
\* test, a result view, a graph or the sleep log leaves every entry as it was.
C23_CalibrationWrittenOnlyByRunWithSamples ==
    [][(terminal_calibration' = terminal_calibration
            /\ calibration_file' = calibration_file)
        \/ SavesCollectedSamples]_vars

\* before the first calibration run of a session the store is the one the
\* session started with, whatever else was done
StoreKeptWithoutCalibration ==
    cal_runs = 0 =>
        /\ terminal_calibration \in TestStores
        /\ calibration_file = FileOfStore(terminal_calibration)

\* a calibration run without samples leaves the store as it was
StoreKeptWithoutSamples ==
    (cal_pc = "menu" /\ cal_runs > 0 /\ samples = << >>) =>
        /\ terminal_calibration = cal_at_start
        /\ calibration_file = file_at_start

\* C23 witness: after a test that recorded a result and a logged night, a
\* calibration run with samples has replaced the entry of the active
\* terminal and kept the entry of the other one; the summary is shown
C23_Witness ==
    /\ t_end = "completed"
    /\ sleep_log # << >>
    /\ sum_op = "shown"
    /\ cal_end = "completed"
    /\ samples # << >>
    /\ Cardinality(DOMAIN terminal_calibration) = 2
    /\ terminal_calibration # cal_at_start
    /\ terminal_calibration[_terminal_signature_key(env)].median_ms = 150000
    /\ cal_at_start[_terminal_signature_key(env)].median_ms = 175100

\* the Reaction Time scores a view shows, one per result in the store
ShownReaction ==
    IF sum_op = "shown" THEN summary["Reaction Time"].scores
    ELSE summary["Reaction Time"].listed

\* a view shows the Reaction Time results
ReactionViewed ==
    /\ sum_op \in {"shown", "history"}
    /\ "Reaction Time" \in DOMAIN summary

\* the result carries a cached adjusted average
Cached(r) == "adjusted_average_s" \in DOMAIN r.details

\* C24 (amended): a Reaction Time result with a cached adjusted average is
\* shown with that value, which is max(0, raw average - baseline of the time
\* of the test) rounded to three decimals, whatever the active baseline is at
\* the time of the view; a result without it is shown with its raw score less
\* the baseline that is active at the time of the view, not below zero.
C24_CachedScoreFixedElseReadjusted ==
    ReactionViewed =>
        /\ Len(ShownReaction) = Len(results["Reaction Time"])
        /\ \A i \in DOMAIN ShownReaction :
               LET r == results["Reaction Time"][i]
               IN  IF Cached(r)
                   THEN /\ ShownReaction[i] = r.details.adjusted_average_s
                        /\ ShownReaction[i] =
                               Round3(Max2(0, r.score - r.details.baseline_ms))
                   ELSE ShownReaction[i] =
                            Max2(0, r.score - get_active_baseline_seconds)

\* C24 as stated: the cached score that is shown is max(0, raw average -
\* baseline of the time of the test).
C24_CachedScoreIsTheDifference ==
    ReactionViewed =>
        \A i \in DOMAIN ShownReaction :
            LET r == results["Reaction Time"][i]
            IN  Cached(r) =>
                    ShownReaction[i] = Max2(0, r.score - r.details.baseline_ms)

\* C24 witness: a test of an average of 0.25 s was recorded under a baseline
\* of 175.1 ms, then a calibration run made the baseline 150.0 ms: the summary
\* shows 0.075 s for it still, and 0.3 - 0.15 s for the result without cache
C24_Witness ==
    /\ sum_op = "shown"
    /\ ReactionViewed
    /\ Len(results["Reaction Time"]) = 2
    /\ ~Cached(results["Reaction Time"][1])
    /\ Cached(results["Reaction Time"][2])
    /\ results["Reaction Time"][2].score = 250000
    /\ results["Reaction Time"][2].details.baseline_ms = 175100
    /\ get_active_baseline_seconds = 150000
    /\ summary["Reaction Time"].scores = <<150000, 75000>>

\* the weekly graph of Reaction Time uses the same scores: the cached one of
\* a day, and the raw one less the active baseline
WeeklyGraphUsesCachedScore ==
    (g_req = "week" /\ g_op = "graphs" /\ test_name = "Reaction Time"
        /\ "Reaction Time" \in DOMAIN results) =>
        \A i \in DOMAIN results["Reaction Time"] :
            LET r == results["Reaction Time"][i]
            IN  daily_scores[r.timestamp + 1] =
                    << (IF Cached(r) THEN r.details.adjusted_average_s
                        ELSE Max2(0, r.score - get_active_baseline_seconds)) \div 1000 >>

\* the graph after the same test and calibration run: Monday 0.15, Tuesday 0.075
WeeklyGraphAfterCalibration ==
    /\ g_req = "week"
    /\ g_op = "graphs"
    /\ test_name = "Reaction Time"
    /\ get_active_baseline_seconds = 150000
    /\ daily_scores = << <<150>>, <<75>>, << >>, << >>, << >> >>
    /\ data_values = <<850, 925>>

=============================================================================
